---- MODULE Spec2Model ----
(***************************************************************************)
(* A model of ruswacipher: the envelope codec and AEAD provider registry   *)
(* (src/src/crypto) and the Wasm obfuscation passes (src/src/obfuscation). *)
(*                                                                         *)
(* Bytes are the integers 0..255, byte strings are sequences of bytes and  *)
(* text is the sequence of its ASCII codes.  Rust indices are 0-based and  *)
(* the sequences here are 1-based; every definition says which it uses.    *)
(***************************************************************************)
EXTENDS Integers, Sequences, FiniteSets, TLC

VARIABLES
    registry,    \* PLUGIN_MANAGER.plugins: the names of the registered providers
    encInit,     \* the Once of encrypt_data has run
    decInit,     \* the Once of decrypt_data has run
    data,        \* the caller's plaintext
    key,         \* the caller's key
    algorithm,   \* the caller's algorithm name
    encrypted,   \* encrypt_data's local `encrypted`: the provider's output
    envelope,    \* the result of the last encrypt_data call
    tamper,      \* what was done to the envelope before it was handed to decrypt_data
    decInput,    \* the bytes handed to the last decrypt_data call
    decKey,      \* the key handed to the last decrypt_data call
    decrypted,   \* the result of the last decrypt_data call
    keyCheck,    \* the result of the last validate_key_for_algorithm call
    module,      \* the WasmModule handed to the obfuscation entry point
    level,       \* the ObfuscationLevel handed to obfuscate
    pass,        \* the entry point that ran last on `module`
    applied,     \* the transformations that entry point applied, in order
    stages,      \* the module after each applied transformation
    output,      \* the result of that entry point
    splitPoints, \* what find_safe_split_points returned for each body of `module`
    entry,       \* the file-level encrypt operation that is running
    keySource,   \* the key source its caller supplied, "none" when there is none
    keyOutput,   \* whether the caller named a file for a generated key
    pc,          \* the step the operation is at
    generated,   \* whether the operation generated a fresh key
    files,       \* the files the operation has written so far
    status,      \* what the operation reported to its caller
    virtualizable, \* what find_virtualizable_functions returned for `module`
    virtualized, \* for each virtualize_function call that succeeded: the index and the body it extracted
    vmBody,      \* the function body handed to convert_to_vm_bytecode
    vmBytecode,  \* what convert_to_vm_bytecode returned
    vmMeta,      \* what create_vm_metadata returned
    vmEncrypted, \* what encrypt_vm_bytecode returned
    vmDecrypted, \* what the interpreter's decrypt_bytecode returned
    vmMap,       \* what generate_obfuscated_opcode_map returned
    vmPc,        \* the step the virtualization pipeline is at
    guard,       \* the thread that holds the lock of PLUGIN_MANAGER, NoThread when it is free
    threads      \* for each thread: the plugin call it makes and the step it is at

cryptoVars == <<registry, encInit, decInit, data, key, algorithm, encrypted,
                envelope, tamper, decInput, decKey, decrypted, keyCheck>>
obfVars == <<module, level, pass, applied, stages, output, splitPoints>>
fileVars == <<entry, keySource, keyOutput, pc, generated, files, status>>
virtVars == <<virtualizable, virtualized>>
vmVars == <<vmBody, vmBytecode, vmMeta, vmEncrypted, vmDecrypted, vmMap, vmPc>>
lockVars == <<guard, threads>>
vars == <<cryptoVars, obfVars, fileVars, virtVars, vmVars, lockVars>>

(***************************************************************************)
(* Results: Rust's Result<Vec<u8>>.  err names the message, arg is the     *)
(* text the message interpolates.                                          *)
(***************************************************************************)
Ok(b) == [ok |-> TRUE, bytes |-> b, err |-> "", arg |-> <<>>]
Err(e, a) == [ok |-> FALSE, bytes |-> <<>>, err |-> e, arg |-> a]
NoResult == [ok |-> FALSE, bytes |-> <<>>, err |-> "not called", arg |-> <<>>]

(***************************************************************************)
(* Byte-string helpers.                                                    *)
(***************************************************************************)
Min(a, b) == IF a < b THEN a ELSE b

Drop(s, n) == SubSeq(s, n + 1, Len(s))

Take(s, n) == SubSeq(s, 1, Min(n, Len(s)))

Repeat(b, n) == [i \in 1..n |-> b]

\* s has p as a contiguous part starting at the 1-based index i
IsPrefixAt(s, p, i) ==
    /\ i + Len(p) - 1 <= Len(s)
    /\ SubSeq(s, i, i + Len(p) - 1) = p

\* the 1-based index of the first b in s at or after i, 0 when there is none
RECURSIVE FindByte(_, _, _)
FindByte(s, b, i) ==
    IF i > Len(s) THEN 0
    ELSE IF s[i] = b THEN i
    ELSE FindByte(s, b, i + 1)

\* u32::to_le_bytes
U32LE(n) ==
    << n % 256, (n \div 256) % 256, (n \div 65536) % 256, (n \div 16777216) % 256 >>

\* u32::from_le_bytes on the first four bytes of s
FromU32LE(s) == s[1] + 256 * s[2] + 65536 * s[3] + 16777216 * s[4]

(***************************************************************************)
(* Names.                                                                  *)
(***************************************************************************)
AesGcmName == <<97, 101, 115, 45, 103, 99, 109>>                   \* "aes-gcm"
ChaChaName ==
    <<99, 104, 97, 99, 104, 97, 50, 48, 112, 111, 108, 121, 49, 51, 48, 53>>
                                                                   \* "chacha20poly1305"
UnknownName == <<114, 111, 116, 49, 51>>                           \* "rot13"

BuiltinNames == {AesGcmName, ChaChaName}

KeyLen == 32
NonceLen == 12
TagLen == 16

(***************************************************************************)
(* The AEAD primitives (the aes_gcm and chacha20poly1305 crates) behind    *)
(* the two providers.  The crates are not part of the repository; they are *)
(* modelled by a keyed stream cipher with a 16-byte keyed tag over the     *)
(* nonce and the ciphertext: sealing then opening with the same key and    *)
(* nonce returns the plaintext, and opening checks the tag first.          *)
(***************************************************************************)
RECURSIVE MixFrom(_, _)
MixFrom(s, i) ==
    IF i > Len(s) THEN 0
    ELSE ((i + 1) * s[i] + MixFrom(s, i + 1)) % 65536

Mix(s) == (MixFrom(s, 1) + 131 * Len(s)) % 65536

AlgTweak(alg) == IF alg = AesGcmName THEN 17 ELSE 91

KeyStreamByte(alg, k, nonce, i) ==
    (Mix(k) + 3 * Mix(nonce) + AlgTweak(alg) + 7 * i) % 256

AeadTag(alg, k, nonce, ct) ==
    [j \in 1..TagLen |->
        (j * Mix(k) + (j + 1) * Mix(nonce) + Mix(ct) + j * AlgTweak(alg)) % 256]

\* cipher.encrypt(nonce, data): ciphertext followed by the tag
AeadSeal(alg, k, nonce, pt) ==
    LET ct == [i \in 1..Len(pt) |-> (pt[i] + KeyStreamByte(alg, k, nonce, i)) % 256]
    IN  ct \o AeadTag(alg, k, nonce, ct)

\* cipher.decrypt(nonce, ciphertext): the plaintext, or an error when the
\* tag does not verify
AeadOpen(alg, k, nonce, sealed) ==
    IF Len(sealed) < TagLen THEN Err("aead", <<>>)
    ELSE LET n == Len(sealed) - TagLen
             ct == SubSeq(sealed, 1, n)
             tag == SubSeq(sealed, n + 1, Len(sealed))
         IN  IF tag # AeadTag(alg, k, nonce, ct) THEN Err("aead", <<>>)
             ELSE Ok([i \in 1..n |->
                        (ct[i] + 256 - KeyStreamByte(alg, k, nonce, i)) % 256])

(***************************************************************************)
(* The providers: AesGcmPlugin and ChaCha20Poly1305Plugin have the same    *)
(* code up to the cipher they create; alg selects the cipher.              *)
(***************************************************************************)
\* EncryptionPlugin::encrypt; nonce is what rng.fill produced
PluginEncrypt(alg, d, k, nonce) ==
    IF Len(k) # KeyLen THEN Err("requires 32 bytes key", alg)
    ELSE Ok(nonce \o AeadSeal(alg, k, nonce, d))

\* mutant of PluginDecrypt: a failed tag check is swallowed and the bytes
\* after the nonce and before the tag are returned
PluginDecrypt_SwallowsAeadError(alg, d, k) ==
    IF Len(d) < NonceLen THEN Err("Encrypted data length is too short", <<>>)
    ELSE IF Len(k) # KeyLen THEN Err("requires 32 bytes key", alg)
    ELSE LET r == AeadOpen(alg, k, SubSeq(d, 1, NonceLen), Drop(d, NonceLen))
         IN  IF r.ok THEN r ELSE Ok(SubSeq(d, NonceLen + 1, Len(d) - TagLen))

\* EncryptionPlugin::decrypt
PluginDecrypt(alg, d, k) ==
    IF Len(d) < NonceLen THEN Err("Encrypted data length is too short", <<>>)
    ELSE IF Len(k) # KeyLen THEN Err("requires 32 bytes key", alg)
    ELSE LET r == AeadOpen(alg, k, SubSeq(d, 1, NonceLen), Drop(d, NonceLen))
         IN  IF r.ok THEN r ELSE Err("decryption failed", alg)

(***************************************************************************)
(* The registry.                                                           *)
(***************************************************************************)
\* register_builtin_plugins: inserts both built-in providers
RegisterBuiltinPlugins(reg) == reg \cup BuiltinNames

\* mutant of EncryptWithPlugin: an unknown name falls back to AES-GCM
EncryptWithPlugin_FallsBack(reg, d, k, name, nonce) ==
    IF name \in reg THEN PluginEncrypt(name, d, k, nonce)
    ELSE PluginEncrypt(AesGcmName, d, k, nonce)

\* encrypt_with_plugin
EncryptWithPlugin(reg, d, k, name, nonce) ==
    IF name \in reg THEN PluginEncrypt(name, d, k, nonce)
    ELSE Err("Plugin not found", name)

\* decrypt_with_plugin
DecryptWithPlugin(reg, d, k, name) ==
    IF name \in reg THEN PluginDecrypt(name, d, k)
    ELSE Err("Plugin not found", name)

(***************************************************************************)
(* The JSON header.  serde_json::to_string writes an object without white  *)
(* space, its keys in order ("algorithm" sorts before "nonce" and is       *)
(* inserted first), numbers in decimal.                                    *)
(***************************************************************************)
\* the ASCII codes of the characters the header is written with
Ascii == [quote |-> 34, comma |-> 44, minus |-> 45, zero |-> 48,
          closeBracket |-> 93, closeBrace |-> 125]

AlgorithmOpen ==          \* {"algorithm":"
    <<123, 34, 97, 108, 103, 111, 114, 105, 116, 104, 109, 34, 58, 34>>
NonceOpen ==              \* ","nonce":[
    <<34, 44, 34, 110, 111, 110, 99, 101, 34, 58, 91>>

\* the decimal digits of n >= 0
RECURSIVE ToDecimal(_)
ToDecimal(n) ==
    IF n < 10 THEN <<Ascii.zero + n>>
    ELSE ToDecimal(n \div 10) \o <<Ascii.zero + (n % 10)>>

\* a serde_json::Number
JsonNumber(n) == IF n < 0 THEN <<Ascii.minus>> \o ToDecimal(0 - n) ELSE ToDecimal(n)

\* the elements of an array, separated by commas
RECURSIVE JsonElements(_)
JsonElements(vals) ==
    IF Len(vals) = 0 THEN <<>>
    ELSE IF Len(vals) = 1 THEN JsonNumber(vals[1])
    ELSE JsonNumber(vals[1]) \o <<Ascii.comma>> \o JsonElements(Tail(vals))

\* serde_json::to_string of {"algorithm": alg, "nonce": [vals]}
HeaderJson(alg, vals) ==
    AlgorithmOpen \o alg \o NonceOpen \o JsonElements(vals) \o <<Ascii.closeBracket, Ascii.closeBrace>>

\* serde_json::to_string of {"algorithm": alg}
HeaderJsonNoNonce(alg) == AlgorithmOpen \o alg \o <<Ascii.quote, Ascii.closeBrace>>

IsDigit(c) == c >= Ascii.zero /\ c <= Ascii.zero + 9

\* the value of the digits of s from index i on, given the value acc so far,
\* and the index after the last digit
RECURSIVE ParseDigits(_, _, _)
ParseDigits(s, i, acc) ==
    IF i <= Len(s) /\ IsDigit(s[i])
    THEN ParseDigits(s, i + 1, 10 * acc + (s[i] - Ascii.zero))
    ELSE [val |-> acc, next |-> i]

\* one number at index i: [ok, val, next]
ParseNumber(s, i) ==
    LET neg == i <= Len(s) /\ s[i] = Ascii.minus
        j == IF neg THEN i + 1 ELSE i
        d == ParseDigits(s, j, 0)
    IN  IF d.next = j THEN [ok |-> FALSE, val |-> 0, next |-> i]
        ELSE [ok |-> TRUE, val |-> IF neg THEN 0 - d.val ELSE d.val, next |-> d.next]

\* the numbers of an array whose first element starts at index i, up to the
\* closing bracket: [ok, vals, next], next the index after the bracket
RECURSIVE ParseElements(_, _, _)
ParseElements(s, i, acc) ==
    LET n == ParseNumber(s, i)
    IN  IF ~n.ok \/ n.next > Len(s) THEN [ok |-> FALSE, vals |-> <<>>, next |-> i]
        ELSE IF s[n.next] = Ascii.closeBracket
             THEN [ok |-> TRUE, vals |-> Append(acc, n.val), next |-> n.next + 1]
        ELSE IF s[n.next] = Ascii.comma
             THEN ParseElements(s, n.next + 1, Append(acc, n.val))
        ELSE [ok |-> FALSE, vals |-> <<>>, next |-> i]

ParseArray(s, i) ==
    IF i <= Len(s) /\ s[i] = Ascii.closeBracket
    THEN [ok |-> TRUE, vals |-> <<>>, next |-> i + 1]
    ELSE ParseElements(s, i, <<>>)

NoHeader == [ok |-> FALSE, algorithm |-> <<>>, hasNonce |-> FALSE, nonce |-> <<>>]

\* std::str::from_utf8 succeeds; every header and name of the model is ASCII
IsUtf8(s) == \A i \in 1..Len(s) : s[i] < 128

\* serde_json::from_str on the header bytes, followed by get("algorithm") as a
\* string and get("nonce") as an array, for the headers HeaderJson and
\* HeaderJsonNoNonce write: [ok, algorithm, hasNonce, nonce].  ok is false
\* for bytes that are no such object.
ParseHeaderJson(s) ==
    IF ~IsUtf8(s) \/ ~IsPrefixAt(s, AlgorithmOpen, 1) THEN NoHeader
    ELSE LET a == Len(AlgorithmOpen) + 1
             q == FindByte(s, Ascii.quote, a)
         IN  IF q = 0 THEN NoHeader
             ELSE IF Drop(s, q - 1) = <<Ascii.quote, Ascii.closeBrace>>
                  THEN [ok |-> TRUE, algorithm |-> SubSeq(s, a, q - 1),
                        hasNonce |-> FALSE, nonce |-> <<>>]
             ELSE IF ~IsPrefixAt(s, NonceOpen, q) THEN NoHeader
             ELSE LET arr == ParseArray(s, q + Len(NonceOpen))
                  IN  IF arr.ok /\ Drop(s, arr.next - 1) = <<Ascii.closeBrace>>
                      THEN [ok |-> TRUE, algorithm |-> SubSeq(s, a, q - 1),
                            hasNonce |-> TRUE, nonce |-> arr.vals]
                      ELSE NoHeader

(***************************************************************************)
(* The envelope codec (crypto/engine.rs).                                  *)
(***************************************************************************)
\* mutant of EnvelopeNonce: the nonce written to the header in reverse order
EnvelopeNonce_Reversed(enc) == [i \in 1..NonceLen |-> enc[NonceLen + 1 - i]]

\* encrypt_data: let nonce = &encrypted[..12]
EnvelopeNonce(enc) == SubSeq(enc, 1, NonceLen)

\* mutant of EnvelopeBody: the last nonce byte is left in the body
EnvelopeBody_KeepsNonceByte(enc) == Drop(enc, NonceLen - 1)

\* encrypt_data: &encrypted[12..]
EnvelopeBody(enc) == Drop(enc, NonceLen)

\* mutant of EnvelopeHeader: the header length written big-endian
EnvelopeHeader_BigEndian(header) ==
    LET le == U32LE(Len(header)) IN <<le[4], le[3], le[2], le[1]>> \o header

\* encrypt_data: header_len.to_le_bytes() followed by the header
EnvelopeHeader(header) == U32LE(Len(header)) \o header

\* encrypt_data's new format for the two built-in algorithms
NewFormat(alg, enc) ==
    EnvelopeHeader(HeaderJson(alg, EnvelopeNonce(enc))) \o EnvelopeBody(enc)

\* encrypt_data's old format: name length, name, provider output
OldFormat(alg, enc) == <<Len(alg) % 256>> \o alg \o enc

\* encrypt_data, after its Once has run: reg is the registry, nonce what the
\* provider's rng produces.  [res, encrypted]
EncryptData(reg, d, k, alg, nonce) ==
    LET enc == EncryptWithPlugin(reg, d, k, alg, nonce)
    IN  IF ~enc.ok THEN [res |-> enc, encrypted |-> <<>>]
        ELSE IF alg \in BuiltinNames /\ Len(enc.bytes) >= NonceLen
             THEN [res |-> Ok(NewFormat(alg, enc.bytes)), encrypted |-> enc.bytes]
        ELSE [res |-> Ok(OldFormat(alg, enc.bytes)), encrypted |-> enc.bytes]

\* decrypt_data: nonce.push(byte as u8) for every value of the array
NonceBytes(vals) == [i \in 1..Len(vals) |-> vals[i] % 256]

\* decrypt_data: value.as_u64() is Some
IsU64(v) == v >= 0

\* decrypt_data's old-format path
DecryptOldFormat(reg, d, k) ==
    LET algo_len == d[1]
    IN  IF Len(d) < 1 + algo_len THEN Err("Invalid encrypted data format", <<>>)
        ELSE LET name == SubSeq(d, 2, 1 + algo_len)
             IN  IF ~IsUtf8(name) THEN Err("Invalid algorithm name (UTF-8)", <<>>)
                 ELSE DecryptWithPlugin(reg, Drop(d, 1 + algo_len), k, name)

\* the header decrypt_data reads from d, NoHeader when the new format does
\* not apply
EnvelopeHeaderOf(d) ==
    IF Len(d) < 4 THEN NoHeader
    ELSE LET header_len == FromU32LE(d)
         IN  IF Len(d) < 4 + header_len THEN NoHeader
             ELSE ParseHeaderJson(SubSeq(d, 5, 4 + header_len))

\* decrypt_data, after its Once has run
DecryptData(reg, d, k) ==
    IF Len(d) = 0 THEN Err("Encrypted data is empty", <<>>)
    ELSE LET h == EnvelopeHeaderOf(d)
         IN  IF h.ok /\ h.hasNonce
             THEN IF \E i \in 1..Len(h.nonce) : ~IsU64(h.nonce[i])
                  THEN Err("Invalid nonce value", <<>>)
                  ELSE LET encrypted_data == Drop(d, 4 + FromU32LE(d))
                       IN  IF h.algorithm \in BuiltinNames
                           THEN DecryptWithPlugin(reg,
                                    NonceBytes(h.nonce) \o encrypted_data, k, h.algorithm)
                           ELSE DecryptWithPlugin(reg, encrypted_data, k, h.algorithm)
             ELSE DecryptOldFormat(reg, d, k)

(***************************************************************************)
(* Key management (crypto/key_management.rs).                              *)
(***************************************************************************)
\* mutant of ValidateKeyLength: only a key that is too short is rejected
ValidateKeyLength_AcceptsLonger(k, expected_length) ==
    IF Len(k) < expected_length THEN Err("KeyManagement", <<>>) ELSE Ok(<<>>)

\* KeyManager::validate_key_length
ValidateKeyLength(k, expected_length) ==
    IF Len(k) # expected_length THEN Err("KeyManagement", <<>>) ELSE Ok(<<>>)

\* KeyManager::validate_key_for_algorithm; alg is an EncryptionAlgorithm
ValidateKeyForAlgorithm(k, alg) ==
    LET expected_length == IF alg = AesGcmName THEN 32 ELSE 32
    IN  ValidateKeyLength(k, expected_length)

(***************************************************************************)
(* The inputs of the crypto model.                                         *)
(***************************************************************************)
MaxPlainLen == 2

PlainBytes == {0, 255}

RECURSIVE SeqsUpTo(_, _)
SeqsUpTo(S, n) ==
    IF n = 0 THEN {<<>>}
    ELSE LET shorter == SeqsUpTo(S, n - 1)
         IN  shorter \cup {Append(s, x) : s \in {t \in shorter : Len(t) = n - 1}, x \in S}

Plaintexts == SeqsUpTo(PlainBytes, MaxPlainLen)

ZeroKey == Repeat(0, 32)
CountKey == [i \in 1..32 |-> i]
ShortKey == Repeat(7, 31)
LongKey == Repeat(7, 33)
Keys == {ZeroKey, CountKey, ShortKey, LongKey}

AlgorithmNames == {AesGcmName, ChaChaName, UnknownName}

\* the nonces rng.fill may produce: one-, two- and three-digit bytes
Nonces == { Repeat(0, 12),
            <<1, 20, 255, 4, 50, 6, 7, 128, 9, 10, 11, 12>>,
            <<200, 201, 202, 203, 204, 205, 206, 207, 208, 209, 210, 99>> }

(***************************************************************************)
(* What may happen to an envelope between encrypt_data and decrypt_data.   *)
(* h is the envelope's header, body what follows it.                       *)
(***************************************************************************)
Tampers == { "none", "nonce11", "nonce11shift", "nonce13shift", "nonce256",
             "nonceNegative", "noNonce", "flipTag", "flipFirst", "algorithmSwap",
             "algorithmUnknown", "oldFormat", "empty", "truncated" }

Frame(header, body) == U32LE(Len(header)) \o header \o body

OtherBuiltin(alg) == IF alg = AesGcmName THEN ChaChaName ELSE AesGcmName

Tampered(kind, env) ==
    LET h == EnvelopeHeaderOf(env)
        body == Drop(env, 4 + FromU32LE(env))
        n == h.nonce
    IN  CASE kind = "none" -> env
          [] kind = "nonce11" -> Frame(HeaderJson(h.algorithm, Take(n, 11)), body)
          [] kind = "nonce11shift" ->
                Frame(HeaderJson(h.algorithm, Take(n, 11)), <<n[12]>> \o body)
          [] kind = "nonce13shift" ->
                Frame(HeaderJson(h.algorithm, Append(n, body[1])), Tail(body))
          [] kind = "nonce256" ->
                Frame(HeaderJson(h.algorithm, <<n[1] + 256>> \o Tail(n)), body)
          [] kind = "nonceNegative" ->
                Frame(HeaderJson(h.algorithm, <<0 - 1>> \o Tail(n)), body)
          [] kind = "noNonce" -> Frame(HeaderJsonNoNonce(h.algorithm), body)
          [] kind = "flipTag" ->
                Frame(HeaderJson(h.algorithm, n),
                      Take(body, Len(body) - 1) \o <<(body[Len(body)] + 1) % 256>>)
          [] kind = "flipFirst" ->
                Frame(HeaderJson(h.algorithm, n), <<(body[1] + 1) % 256>> \o Tail(body))
          [] kind = "algorithmSwap" -> Frame(HeaderJson(OtherBuiltin(h.algorithm), n), body)
          [] kind = "algorithmUnknown" -> Frame(HeaderJson(UnknownName, n), body)
          [] kind = "oldFormat" -> OldFormat(h.algorithm, n \o body)
          [] kind = "empty" -> <<>>
          [] kind = "truncated" -> Take(env, 3)

(***************************************************************************)
(* The crypto state machine.  A behaviour is one caller: it picks a        *)
(* plaintext, a key and an algorithm name, may validate the key, encrypts, *)
(* and hands the envelope, possibly altered, to decrypt_data with a key.   *)
(***************************************************************************)
NoModule == <<>>
NoOutput == [ok |-> FALSE, module |-> NoModule, err |-> "not called"]

ObfIdle ==
    /\ module = NoModule
    /\ level = "none"
    /\ pass = "none"
    /\ applied = <<>>
    /\ stages = <<>>
    /\ output = NoOutput
    /\ splitPoints = <<>>

FileIdle ==
    /\ entry = "none"
    /\ keySource = "none"
    /\ keyOutput = FALSE
    /\ pc = "idle"
    /\ generated = FALSE
    /\ files = {}
    /\ status = "idle"

\* no virtualization entry point has run
VirtIdle ==
    /\ virtualizable = <<>>
    /\ virtualized = <<>>

\* the virtualization pipeline has not started
VmIdle ==
    /\ vmBody = <<>>
    /\ vmBytecode = <<>>
    /\ vmMeta = <<>>
    /\ vmEncrypted = <<>>
    /\ vmDecrypted = <<>>
    /\ vmMap = <<>>
    /\ vmPc = "idle"

NoThread == 0

\* no thread calls into the plugin registry
LockIdle ==
    /\ guard = NoThread
    /\ threads = <<>>

InitCrypto ==
    /\ registry = {}
    /\ encInit = FALSE
    /\ decInit = FALSE
    /\ data \in Plaintexts
    /\ key \in Keys
    /\ algorithm \in AlgorithmNames
    /\ encrypted = <<>>
    /\ envelope = NoResult
    /\ tamper = "none"
    /\ decInput = <<>>
    /\ decKey = <<>>
    /\ decrypted = NoResult
    /\ keyCheck = NoResult
    /\ ObfIdle
    /\ FileIdle
    /\ VirtIdle
    /\ VmIdle
    /\ LockIdle

\* encrypt_data(data, key, algorithm)
EncryptDataCall ==
    /\ envelope = NoResult
    /\ \E nonce \in Nonces :
         LET reg == IF encInit THEN registry ELSE RegisterBuiltinPlugins(registry)
             r == EncryptData(reg, data, key, algorithm, nonce)
         IN  /\ registry' = reg
             /\ encInit' = TRUE
             /\ encrypted' = r.encrypted
             /\ envelope' = r.res
    /\ UNCHANGED <<decInit, data, key, algorithm, tamper, decInput, decKey,
                   decrypted, keyCheck, obfVars, fileVars, virtVars, vmVars, lockVars>>

\* decrypt_data(bytes, k) on the envelope of the last encrypt_data
DecryptDataCall ==
    /\ envelope.ok
    /\ decrypted = NoResult
    /\ \E kind \in Tampers, k \in Keys :
         LET reg == IF decInit THEN registry ELSE RegisterBuiltinPlugins(registry)
             d == Tampered(kind, envelope.bytes)
         IN  /\ registry' = reg
             /\ decInit' = TRUE
             /\ tamper' = kind
             /\ decInput' = d
             /\ decKey' = k
             /\ decrypted' = DecryptData(reg, d, k)
    /\ UNCHANGED <<encInit, data, key, algorithm, encrypted, envelope, keyCheck,
                   obfVars, fileVars, virtVars, vmVars, lockVars>>

\* KeyManager::validate_key_for_algorithm(key, algorithm), for an algorithm
\* name that is an EncryptionAlgorithm
ValidateKeyCall ==
    /\ keyCheck = NoResult
    /\ algorithm \in BuiltinNames
    /\ keyCheck' = ValidateKeyForAlgorithm(key, algorithm)
    /\ UNCHANGED <<registry, encInit, decInit, data, key, algorithm, encrypted,
                   envelope, tamper, decInput, decKey, decrypted, obfVars,
                   fileVars, virtVars, vmVars, lockVars>>

NextCrypto == EncryptDataCall \/ DecryptDataCall \/ ValidateKeyCall

SpecCrypto == InitCrypto /\ [][NextCrypto]_vars

(***************************************************************************)
(* Wasm modules (wasm/structure.rs).  A module is the sequence of its      *)
(* sections, a section is [type, data]; positions inside data are 0-based  *)
(* as in the Rust code: At(s, pos) is s[pos] and Slice(s, a, b) is         *)
(* s[a..b].                                                                *)
(***************************************************************************)
At(s, pos) == s[pos + 1]

Slice(s, a, b) == SubSeq(s, a + 1, b)

Section(t, d) == [type |-> t, data |-> d]

\* the 1-based indices of the sections of type t, in order
SectionsOfType(m, t) == {i \in 1..Len(m) : m[i].type = t}

SetMin(S) == CHOOSE x \in S : \A y \in S : x <= y
SetMax(S) == CHOOSE x \in S : \A y \in S : x >= y

\* 2^n
RECURSIVE Pow2(_)
Pow2(n) == IF n = 0 THEN 1 ELSE 2 * Pow2(n - 1)

\* the LEB128 read loop every pass repeats: from pos, OR the low seven bits
\* of each byte into the value until a byte has its high bit clear or the
\* data ends.  [val, next]
RECURSIVE ReadLebFrom(_, _, _, _)
ReadLebFrom(d, pos, shift, acc) ==
    IF pos >= Len(d) THEN [val |-> acc, next |-> pos]
    ELSE LET byte == At(d, pos)
             v == acc + (byte % 128) * Pow2(shift)
         IN  IF byte < 128 THEN [val |-> v, next |-> pos + 1]
             ELSE ReadLebFrom(d, pos + 1, shift + 7, v)

ReadLeb(d, pos) == ReadLebFrom(d, pos, 0, 0)

\* while pos < len && (d[pos] & 0x80) != 0 { pos += 1 }; if pos < len { pos += 1 }
RECURSIVE SkipLeb(_, _)
SkipLeb(d, pos) ==
    IF pos >= Len(d) THEN pos
    ELSE IF At(d, pos) >= 128 THEN SkipLeb(d, pos + 1)
    ELSE pos + 1

\* write_leb128
RECURSIVE WriteLeb128(_)
WriteLeb128(value) ==
    IF value \div 128 # 0 THEN <<(value % 128) + 128>> \o WriteLeb128(value \div 128)
    ELSE <<value % 128>>

\* count_funcs: the leading count of the first Code section
CountFuncs(m) ==
    LET cs == SectionsOfType(m, "Code")
    IN  IF cs = {} THEN 0
        ELSE LET d == m[SetMin(cs)].data
             IN  IF Len(d) = 0 THEN 0 ELSE ReadLeb(d, 0).val

(***************************************************************************)
(* Function splitting (obfuscation/function_split.rs).                     *)
(***************************************************************************)
LargeThreshold == 100
MinSplitDistance == 10

\* analyze_instr: [type, effect].  The arms are tried in order, so 0x0F is a
\* Branch: the Return arm comes after the 0x0C..=0x0F arm.
AnalyzeInstr(opcode) ==
    CASE opcode \in 65..68 -> [type |-> "Push", effect |-> 1]
      [] opcode = 32 -> [type |-> "Push", effect |-> 1]
      [] opcode = 33 -> [type |-> "Pop", effect |-> 0 - 1]
      [] opcode = 34 -> [type |-> "Neutral", effect |-> 0]
      [] opcode = 35 -> [type |-> "Push", effect |-> 1]
      [] opcode = 36 -> [type |-> "Pop", effect |-> 0 - 1]
      [] opcode \in 40..62 -> [type |-> "Neutral", effect |-> 0]
      [] opcode \in {2, 3} -> [type |-> "BlockStart", effect |-> 0]
      [] opcode = 4 -> [type |-> "BlockStart", effect |-> 0 - 1]
      [] opcode \in {5, 11} -> [type |-> "BlockEnd", effect |-> 0]
      [] opcode \in 12..15 -> [type |-> "Branch", effect |-> 0]
      [] opcode \in {16, 17} -> [type |-> "Call", effect |-> 0]
      [] opcode \in 106..127 -> [type |-> "Neutral", effect |-> 0 - 1]
      [] opcode \in 69..105 -> [type |-> "Neutral", effect |-> 0 - 1]
      [] OTHER -> [type |-> "Other", effect |-> 0]

\* find_safe_split_points: the position after the local declarations, each
\* taken to be two bytes
RECURSIVE SkipLocalDecls(_, _, _)
SkipLocalDecls(body, pos, n) ==
    IF n = 0 THEN pos
    ELSE IF pos + 1 < Len(body) THEN SkipLocalDecls(body, pos + 2, n - 1)
    ELSE pos

\* find_safe_split_points: the position after the operand of the opcode
\* that ends just before pos
SkipOperand(body, opcode, pos) ==
    CASE opcode \in {65, 66} -> SkipLeb(body, pos)
      [] opcode = 67 -> pos + Min(4, Len(body) - pos)
      [] opcode = 68 -> pos + Min(8, Len(body) - pos)
      [] opcode \in 32..36 -> SkipLeb(body, pos)
      [] opcode = 16 -> SkipLeb(body, pos)
      [] OTHER -> pos

\* find_safe_split_points: one turn of the main loop on the loop variables
\* st; nothing happens once pos has reached the end of the body
ScanSplitPoint(body, st) ==
    IF st.pos >= Len(body) THEN st
    ELSE LET opcode == At(body, st.pos)
             pos == st.pos + 1
             instr == AnalyzeInstr(opcode)
             stack_depth == st.stack_depth + instr.effect
             block_depth ==
                 IF instr.type = "BlockStart" THEN st.block_depth + 1
                 ELSE IF instr.type = "BlockEnd" /\ st.block_depth > 0
                 THEN st.block_depth - 1
                 ELSE st.block_depth
             safe == /\ stack_depth = 0
                     /\ block_depth = 0
                     /\ instr.type # "Return"
                     /\ pos - st.last_safe_point >= MinSplitDistance
         IN  [pos |-> SkipOperand(body, opcode, pos),
              stack_depth |-> stack_depth,
              block_depth |-> block_depth,
              last_safe_point |-> IF safe THEN pos ELSE st.last_safe_point,
              safe_points |-> IF safe THEN Append(st.safe_points, pos)
                              ELSE st.safe_points]

\* find_safe_split_points: up to n turns of the main loop, taken half by
\* half; the loop is over when pos has reached the end of the body
RECURSIVE ScanSplitPoints(_, _, _)
ScanSplitPoints(body, st, n) ==
    IF n = 0 THEN st
    ELSE IF n = 1 THEN ScanSplitPoint(body, st)
    ELSE LET half == ScanSplitPoints(body, st, n \div 2)
         IN  IF half.pos >= Len(body) THEN half
             ELSE ScanSplitPoints(body, half, n - (n \div 2))

\* find_safe_split_points: the loop runs until pos reaches the end of the
\* body, which takes at most Len(body) turns
FindSafeSplitPoints(body) ==
    LET start == IF Len(body) = 0 THEN 0 ELSE SkipLocalDecls(body, 1, At(body, 0))
    IN  ScanSplitPoints(body,
                        [pos |-> start, stack_depth |-> 0, block_depth |-> 0,
                         last_safe_point |-> start, safe_points |-> <<>>],
                        Len(body)).safe_points

\* get_exported_functions: the entries of one Export section, n entries left
RECURSIVE ReadExportEntries(_, _, _, _)
ReadExportEntries(d, pos, n, acc) ==
    IF n = 0 \/ pos >= Len(d) THEN acc
    ELSE LET name_len == ReadLeb(d, pos)
             p1 == name_len.next + name_len.val
         IN  IF p1 >= Len(d) THEN ReadExportEntries(d, p1, n - 1, acc)
             ELSE LET export_type == At(d, p1)
                      p2 == p1 + 1
                  IN  IF export_type = 0 /\ p2 < Len(d)
                      THEN LET func_idx == ReadLeb(d, p2)
                           IN  ReadExportEntries(d, func_idx.next, n - 1,
                                                 acc \cup {func_idx.val})
                      ELSE ReadExportEntries(d, SkipLeb(d, p2), n - 1, acc)

\* get_exported_functions: the indices the function exports of every Export
\* section carry
GetExportedFunctions(m) ==
    UNION { LET d == m[i].data
                num_exports == ReadLeb(d, 0)
            IN  ReadExportEntries(d, num_exports.next, num_exports.val, {})
            : i \in SectionsOfType(m, "Export") }

\* find_large_functions: the (pos, size) of the bodies of the Code section,
\* read from position 1 on
RECURSIVE FuncBodies(_, _, _)
FuncBodies(d, pos, acc) ==
    IF pos >= Len(d) THEN acc
    ELSE LET size == ReadLeb(d, pos)
         IN  FuncBodies(d, size.next + size.val,
                        Append(acc, [pos |-> size.next, size |-> size.val]))

\* find_large_functions: whether the body at position func_idx of the Code
\* section is over the threshold, not in exported_funcs and has a safe
\* split point
IsLargeFunction(d, b, func_idx, exported_funcs) ==
    /\ b.size > LargeThreshold
    /\ func_idx \notin exported_funcs
    /\ Len(FindSafeSplitPoints(Slice(d, b.pos, b.pos + b.size))) >= 1

RECURSIVE SelectLarge(_, _, _, _, _)
SelectLarge(d, func_bodies, i, exported_funcs, acc) ==
    IF i > Len(func_bodies) THEN acc
    ELSE SelectLarge(d, func_bodies, i + 1, exported_funcs,
                     IF IsLargeFunction(d, func_bodies[i], i - 1, exported_funcs)
                     THEN Append(acc, i - 1) ELSE acc)

\* find_large_functions: the positions in the Code section of the functions
\* to split, in order
FindLargeFunctions(m, exported_funcs) ==
    LET cs == SectionsOfType(m, "Code")
    IN  IF cs = {} THEN <<>>
        ELSE LET d == m[SetMin(cs)].data
             IN  SelectLarge(d, FuncBodies(d, 1, <<>>), 1, exported_funcs, <<>>)

\* Result<WasmModule>
OkModule(m) == [ok |-> TRUE, module |-> m, err |-> ""]
ErrModule(e) == [ok |-> FALSE, module |-> <<>>, err |-> e]

\* split_function: the position of the type index of function func_idx in
\* the Function section data, -1 when the data ends inside an index
RECURSIVE SkipTypeIndices(_, _, _, _)
SkipTypeIndices(d, pos, current_func_idx, func_idx) ==
    IF ~(current_func_idx < func_idx /\ pos < Len(d)) THEN pos
    ELSE LET next == SkipLeb(d, pos)
         IN  IF next > pos /\ At(d, next - 1) < 128
             THEN SkipTypeIndices(d, next, current_func_idx + 1, func_idx)
             ELSE 0 - 1

\* split_function: the body of function func_idx in the Code section data,
\* looked for from position i on.  [found, exceeds, func_start, body_start,
\* body_end]
RECURSIVE FindBody(_, _, _, _, _)
FindBody(d, i, current_func_idx, func_idx, num_funcs) ==
    IF ~(current_func_idx < num_funcs /\ i < Len(d))
    THEN [found |-> current_func_idx = func_idx, exceeds |-> FALSE, extracted |-> FALSE,
          func_start |-> 0, body_start |-> 0, body_end |-> 0]
    ELSE LET size == ReadLeb(d, i)
         IN  IF current_func_idx = func_idx
             THEN [found |-> TRUE, exceeds |-> size.next + size.val > Len(d),
                   extracted |-> TRUE,
                   func_start |-> i, body_start |-> size.next,
                   body_end |-> size.next + size.val]
             ELSE FindBody(d, size.next + size.val, current_func_idx + 1, func_idx,
                           num_funcs)

\* split_function: a complete body: LEB128 size, no local groups, the bytes
CompleteBody(bytes) ==
    LET full_body == <<0>> \o bytes
    IN  WriteLeb128(Len(full_body)) \o full_body

\* split_function: push the end opcode unless the bytes already end in 0x0B
EnsureEnd(bytes) ==
    IF Len(bytes) > 0 /\ bytes[Len(bytes)] = 11 THEN bytes ELSE Append(bytes, 11)

\* split_function: the sub-function for the i-th split point (i from 0):
\* the bytes from start_pos to the split point, then a call of the next
\* sub-function
SubFuncBody(body, start_pos, split_point, num_funcs, i) ==
    CompleteBody(EnsureEnd(Slice(body, start_pos, split_point)
                           \o <<16>> \o WriteLeb128(num_funcs + i + 1)))

\* split_function: the last sub-function, the bytes after the last split
\* point
LastSubFuncBody(body, start_pos) ==
    CompleteBody(EnsureEnd(Slice(body, start_pos, Len(body))))

\* split_function: the bodies of all sub-functions, concatenated in order
RECURSIVE SubFuncBodies(_, _, _, _, _)
SubFuncBodies(body, split_points, i, start_pos, num_funcs) ==
    IF i >= Len(split_points) THEN LastSubFuncBody(body, start_pos)
    ELSE SubFuncBody(body, start_pos, split_points[i + 1], num_funcs, i)
         \o SubFuncBodies(body, split_points, i + 1, split_points[i + 1], num_funcs)

\* split_function: the body that replaces the split function:
\* call <first_subfunc_idx>; end
TrampolineBody(num_funcs) ==
    LET new_main_body == <<0, 16>> \o WriteLeb128(num_funcs) \o <<11>>
    IN  WriteLeb128(Len(new_main_body)) \o new_main_body

\* the type indices are appended but one of them is not counted
UpdatedFunctionData_CountsOneLess(d, function_type_index, num_subfuncs) ==
    LET count == ReadLeb(d, 0)
        extended == d \o Repeat(function_type_index % 128, num_subfuncs)
    IN  WriteLeb128(count.val + num_subfuncs - 1)
        \o Slice(extended, count.next, Len(extended))

\* split_function: the Function section data with num_subfuncs type indices
\* appended and the leading count rewritten
UpdatedFunctionData(d, function_type_index, num_subfuncs) ==
    LET count == ReadLeb(d, 0)
        RECURSIVE Types(_)
        Types(n) == IF n = 0 THEN <<>>
                    ELSE WriteLeb128(function_type_index) \o Types(n - 1)
        extended == d \o Types(num_subfuncs)
    IN  WriteLeb128(count.val + num_subfuncs) \o Slice(extended, count.next, Len(extended))

\* split_function: the Code section data with the body of the split function
\* replaced, the sub-functions appended and the leading count rewritten
UpdatedCodeData(d, func_start, func_body_end, main_body, sub_bodies, num_subfuncs) ==
    LET spliced == Slice(d, 0, func_start) \o main_body
                   \o Slice(d, func_body_end, Len(d)) \o sub_bodies
        count == ReadLeb(spliced, 0)
    IN  WriteLeb128(count.val + num_subfuncs) \o Slice(spliced, count.next, Len(spliced))

\* split_function
SplitFunction(m, func_idx) ==
    LET fs == SectionsOfType(m, "Function")
        cs == SectionsOfType(m, "Code")
    IN  IF fs = {} THEN ErrModule("Missing Function section")
        ELSE IF cs = {} THEN ErrModule("Missing Code section")
        ELSE
        LET function_section_idx == SetMax(fs)
            code_section_idx == SetMax(cs)
            function_data == m[function_section_idx].data
            code_data == m[code_section_idx].data
            num_func_types == ReadLeb(function_data, 0)
            tpos == SkipTypeIndices(function_data, num_func_types.next, 0, func_idx)
            num_funcs == ReadLeb(code_data, 0)
            found == FindBody(code_data, num_funcs.next, 0, func_idx, num_funcs.val)
        IN  IF func_idx >= num_func_types.val THEN ErrModule("Function index out of range")
            ELSE IF tpos < 0 THEN ErrModule("Unexpected end of function section")
            ELSE IF tpos >= Len(function_data) THEN ErrModule("Function type index not found")
            ELSE IF num_funcs.val <= func_idx THEN ErrModule("Function index out of range")
            ELSE IF found.exceeds THEN ErrModule("Function body exceeds code section range")
            ELSE IF ~found.found THEN ErrModule("Cannot find function")
            ELSE
            LET function_type_index == At(function_data, tpos)
                body == IF found.extracted
                        THEN Slice(code_data, found.body_start, found.body_end)
                        ELSE <<>>
                split_points == FindSafeSplitPoints(body)
                num_subfuncs == Len(split_points) + 1
            IN  IF Len(split_points) = 0 THEN OkModule(m)
                ELSE OkModule(
                    [i \in 1..Len(m) |->
                        IF i = code_section_idx
                        THEN Section(m[i].type,
                                UpdatedCodeData(code_data,
                                    found.func_start, found.body_end,
                                    TrampolineBody(num_funcs.val),
                                    SubFuncBodies(body, split_points, 0, 0, num_funcs.val),
                                    num_subfuncs))
                        ELSE IF i = function_section_idx
                        THEN Section(m[i].type,
                                UpdatedFunctionData(function_data, function_type_index,
                                                    num_subfuncs))
                        ELSE m[i]])

\* split_large_functions where each split also appends a function type to
\* the Type section
RECURSIVE SplitEach_AddsType(_, _, _)
SplitEach_AddsType(m, large_functions, i) ==
    IF i > Len(large_functions) THEN OkModule(m)
    ELSE LET r == SplitFunction(m, large_functions[i])
             ts == SectionsOfType(m, "Type")
         IN  IF ~r.ok THEN r
             ELSE IF r.module = m \/ ts = {}
             THEN SplitEach_AddsType(r.module, large_functions, i + 1)
             ELSE SplitEach_AddsType(
                      [r.module EXCEPT ![SetMin(ts)].data = @ \o <<96, 0, 0>>],
                      large_functions, i + 1)

\* split_large_functions: split_function on each function of the list in
\* turn, the first error ending the pass
RECURSIVE SplitEach(_, _, _)
SplitEach(m, large_functions, i) ==
    IF i > Len(large_functions) THEN OkModule(m)
    ELSE LET r == SplitFunction(m, large_functions[i])
         IN  IF r.ok THEN SplitEach(r.module, large_functions, i + 1) ELSE r

\* split_large_functions
SplitLargeFunctions(m) ==
    LET large_functions == FindLargeFunctions(m, GetExportedFunctions(m))
    IN  IF Len(large_functions) = 0 THEN OkModule(m)
        ELSE SplitEach(m, large_functions, 1)

(***************************************************************************)
(* Dead code and control flow (obfuscation/control_flow.rs).               *)
(***************************************************************************)
\* find_function_bodies: the loop over the bodies, n bodies left.  Each
\* range includes the size field.
RECURSIVE ReadFunctionBodies(_, _, _, _)
ReadFunctionBodies(code_data, i, n, functions) ==
    IF n = 0 \/ i >= Len(code_data) THEN functions
    ELSE LET size == ReadLeb(code_data, i)
             func_end == size.next + size.val
         IN  IF func_end <= Len(code_data)
             THEN ReadFunctionBodies(code_data, func_end, n - 1,
                                     Append(functions, [start |-> i, end |-> func_end]))
             ELSE functions

\* find_function_bodies
FindFunctionBodies(code_data) ==
    LET count == ReadLeb(code_data, 0)
    IN  ReadFunctionBodies(code_data, count.next, count.val, <<>>)

\* the loop over the local variable groups: a LEB128 count and a type byte
\* each
RECURSIVE SkipLocalGroups(_, _, _)
SkipLocalGroups(function_data, header_end, local_count) ==
    IF local_count = 0 \/ header_end >= Len(function_data) THEN header_end
    ELSE LET count == ReadLeb(function_data, header_end)
         IN  SkipLocalGroups(function_data,
                             IF count.next < Len(function_data)
                             THEN count.next + 1 ELSE count.next,
                             local_count - 1)

\* the local variable declarations of a function (size field included in
\* function_data): [header_start, header_end]
LocalsHeader(function_data) ==
    LET i == ReadLeb(function_data, 0).next
    IN  IF i < Len(function_data)
        THEN LET local_count == ReadLeb(function_data, i)
             IN  [header_start |-> i,
                  header_end |-> SkipLocalGroups(function_data, local_count.next,
                                                 local_count.val)]
        ELSE [header_start |-> i, header_end |-> i]

\* the inserted bytes are put in front of the declarations
RebuildFunction_InsertsBeforeDecls(function_data, inserted) ==
    LET i == ReadLeb(function_data, 0).next
        new_body == inserted \o Slice(function_data, i, Len(function_data))
    IN  WriteLeb128(Len(new_body)) \o new_body

\* the function rebuilt as size + declarations + inserted + instructions
RebuildFunction(function_data, inserted) ==
    LET h == LocalsHeader(function_data)
        new_body == Slice(function_data, h.header_start, h.header_end)
                    \o inserted
                    \o Slice(function_data, h.header_end, Len(function_data))
    IN  WriteLeb128(Len(new_body)) \o new_body

\* add_dead_code: the five nop instructions put after the declarations
DeadCodeNops == Repeat(1, 5)

\* obfuscate_function_body: the body is rebuilt with nothing inserted
ObfuscateFunctionBody(function_data) == RebuildFunction(function_data, <<>>)

RECURSIVE RebuildBodies(_, _, _, _)
RebuildBodies(d, function_bodies, i, inserted) ==
    IF i > Len(function_bodies) THEN <<>>
    ELSE RebuildFunction(Slice(d, function_bodies[i].start, function_bodies[i].end),
                         inserted)
         \o RebuildBodies(d, function_bodies, i + 1, inserted)

\* the loop of add_dead_code and obfuscate_control_flow over the sections:
\* the first Code section that has function bodies is rebuilt, every other
\* section is kept
RebuildCode(m, inserted) ==
    LET cs == {i \in SectionsOfType(m, "Code") : Len(FindFunctionBodies(m[i].data)) > 0}
    IN  IF cs = {} THEN m
        ELSE LET s == SetMin(cs)
                 d == m[s].data
                 function_bodies == FindFunctionBodies(d)
             IN  [m EXCEPT ![s].data =
                      Slice(d, 0, function_bodies[1].start)
                      \o RebuildBodies(d, function_bodies, 1, inserted)]

\* add_dead_code
AddDeadCode(m) == OkModule(RebuildCode(m, DeadCodeNops))

\* obfuscate_control_flow
ObfuscateControlFlow(m) == OkModule(RebuildCode(m, <<>>))

(***************************************************************************)
(* Local renaming (obfuscation/variable_obfuscation.rs).  The new operand  *)
(* is drawn from 0..=min(original, 3) by a generator seeded with an        *)
(* HMAC-SHA256 of the position and the three bytes there; the model keeps  *)
(* the range and leaves the draw open, so the pass is the set of modules   *)
(* it can return.                                                          *)
(***************************************************************************)
\* is_local_decl_pattern: the index after the LEB128 number that starts at
\* bytes[1]
RECURSIVE PatternOperandEnd(_, _)
PatternOperandEnd(bytes, i) ==
    IF i < Len(bytes) /\ At(bytes, i) >= 128 THEN PatternOperandEnd(bytes, i + 1)
    ELSE i + 1

\* is_local_decl_pattern
IsLocalDeclPattern(bytes) ==
    IF Len(bytes) < 3 THEN FALSE
    ELSE \/ /\ At(bytes, 0) = 65
            /\ LET i == PatternOperandEnd(bytes, 1)
               IN  i < Len(bytes) /\ At(bytes, i) \in {33, 34, 35}
         \/ At(bytes, 0) \in {32, 34}

\* scramble_local_name drawing from 0..=3 whatever the original index is
ScrambleLocalName_AnyIndexUpToThree(d, pos) ==
    IF pos + 2 >= Len(d) THEN {d}
    ELSE IF At(d, pos) \in 32..35 /\ At(d, pos + 1) < 128
    THEN {[d EXCEPT ![pos + 2] = v] : v \in 0..3}
    ELSE {d}

\* scramble_local_name: the contents data can have afterwards
ScrambleLocalName(d, pos) ==
    IF pos + 2 >= Len(d) THEN {d}
    ELSE IF At(d, pos) \in 32..35 /\ At(d, pos + 1) < 128
    THEN {[d EXCEPT ![pos + 2] = v] : v \in 0..Min(At(d, pos + 1), 3)}
    ELSE {d}

\* rename_locals: the loop body at offset i, on each of the contents in ds
RenameLocalsAt(ds, i) ==
    UNION {IF IsLocalDeclPattern(Slice(d, i, i + 3)) THEN ScrambleLocalName(d, i)
           ELSE {d} : d \in ds}

\* rename_locals: the loop over the offsets lo..hi-1 of one Code section,
\* taken half by half
RECURSIVE RenameLocalsRange(_, _, _)
RenameLocalsRange(ds, lo, hi) ==
    IF lo >= hi THEN ds
    ELSE IF hi = lo + 1 THEN RenameLocalsAt(ds, lo)
    ELSE LET mid == lo + ((hi - lo) \div 2)
             first == RenameLocalsRange(ds, lo, mid)
         IN  IF first = {} THEN first ELSE RenameLocalsRange(first, mid, hi)

\* rename_locals: for i in 0..len.saturating_sub(2)
RenameLocalsData(d) ==
    RenameLocalsRange({d}, 0, IF Len(d) < 2 THEN 0 ELSE Len(d) - 2)

\* rename_locals: the loop over the sections, from section s on
RECURSIVE RenameLocalsFrom(_, _)
RenameLocalsFrom(m, s) ==
    IF s > Len(m) THEN {m}
    ELSE IF m[s].type = "Code"
    THEN UNION {RenameLocalsFrom([m EXCEPT ![s].data = d2], s + 1)
                : d2 \in RenameLocalsData(m[s].data)}
    ELSE RenameLocalsFrom(m, s + 1)

\* rename_locals: the results it can return
RenameLocals(m) == {OkModule(m2) : m2 \in RenameLocalsFrom(m, 1)}

(***************************************************************************)
(* The virtual machine side of virtualization (obfuscation/vm.rs,          *)
(* obfuscation/virtualization.rs, obfuscation/interpreter.rs).  The random *)
(* number generator is a parameter rnd: the byte values the model lets it  *)
(* draw.  SHA-256 is replaced by a 32-byte digest that depends on every    *)
(* input byte and on the length; nothing below relies on more than that.   *)
(***************************************************************************)
\* a ^ b on n-bit values
RECURSIVE BitXor(_, _, _)
BitXor(a, b, n) ==
    IF n = 0 THEN 0
    ELSE (((a % 2) + (b % 2)) % 2) + 2 * BitXor(a \div 2, b \div 2, n - 1)

\* u8::rotate_right(4) and u8::rotate_left(4): the nibbles change places
RotateNibbles(b) == (b \div 16) + (b % 16) * 16

\* the byte substitution of encrypt_vm_bytecode and of decrypt_bytecode: a
\* low nibble of 0x0 becomes 0xF and a low nibble of 0xF becomes 0x0
SubstituteNibble(b) ==
    IF b % 16 = 0 THEN b + 15
    ELSE IF b % 16 = 15 THEN b - 15
    ELSE b

\* u32::to_le_bytes, for values below 2^31
U32Le(v) == <<v % 256, (v \div 256) % 256, (v \div 65536) % 256, (v \div 16777216) % 256>>

\* the stand-in for Sha256: 32 bytes from all the bytes hashed
RECURSIVE DigestSum(_, _, _)
DigestSum(input, i, h) ==
    IF i > Len(input) THEN h
    ELSE DigestSum(input, i + 1, (h * 31 + input[i] + 1) % 65521)

Sha256(input) ==
    LET h == DigestSum(input, 1, Len(input) + 7)
    IN  [i \in 1..32 |-> (h * i + (h \div 256) + 13 * i * i) % 256]

\* generate_obfuscated_opcode_map: the table after the shuffle loop has come
\* down from index i to index 1, each draw j in 0..=i
RECURSIVE ShuffleFrom(_, _)
ShuffleFrom(map, i) ==
    IF i < 1 THEN {map}
    ELSE UNION {ShuffleFrom([map EXCEPT ![i + 1] = map[j + 1], ![j + 1] = map[i + 1]],
                            i - 1)
                : j \in 0..i}

\* the table has MapSize entries; its last index is the code of Exit
MapSize == 4
ExitCode == MapSize - 1

\* generate_obfuscated_opcode_map: the tables it can return (0-based entry k
\* is element k + 1)
GenerateObfuscatedOpcodeMap ==
    {[map EXCEPT ![ExitCode + 1] = ExitCode]
        : map \in ShuffleFrom([k \in 1..MapSize |-> k - 1], MapSize - 1)}

\* the bits set in the 7-bit payload v, moved left by shift places and cut
\* to width bits
ShiftedBits(v, shift, width) ==
    {k + shift : k \in {j \in 0..6 : (v \div Pow2(j)) % 2 = 1}} \cap (0..(width - 1))

\* the LEB128 loops of convert_to_vm_bytecode on a width-bit accumulator,
\* kept as the set of its bits that are 1: value |= (byte & 0x7F) << shift.
\* overflow says a shift of width or more bits was asked for, which panics
\* in a build with overflow checks and shifts by shift mod width without
\* them
RECURSIVE ReadImmediate(_, _, _, _, _, _)
ReadImmediate(d, i, shift, value, width, overflow) ==
    IF i >= Len(d) THEN [value |-> value, next |-> i, overflow |-> overflow]
    ELSE LET byte == At(d, i)
             v == value \cup ShiftedBits(byte % 128, shift % width, width)
             o == overflow \/ shift >= width
         IN  IF byte < 128 THEN [value |-> v, next |-> i + 1, overflow |-> o]
             ELSE ReadImmediate(d, i + 1, shift + 7, v, width, o)

\* (value as u32).to_le_bytes() of an accumulator kept as its set of bits
BitsU32Le(value) ==
    LET ByteAt(n) == LET bits == {k \in 0..7 : (8 * n + k) \in value}
                         RECURSIVE Sum(_)
                         Sum(S) == IF S = {} THEN 0
                                   ELSE LET k == CHOOSE x \in S : TRUE
                                        IN  Pow2(k) + Sum(S \ {k})
                     IN  Sum(bits)
    IN  <<ByteAt(0), ByteAt(1), ByteAt(2), ByteAt(3)>>

\* convert_to_vm_bytecode: the VM bytes written before the immediate of the
\* opcodes that carry one LEB128 immediate read into a u32
ImmediateOpcodes == {65, 32, 33, 34, 35, 36, 12, 13, 16}

ImmediatePrefix(wasm_opcode) ==
    CASE wasm_opcode = 65 -> <<1>>
      [] wasm_opcode = 32 -> <<64>>
      [] wasm_opcode = 33 -> <<65>>
      [] wasm_opcode = 34 -> <<3, 65>>
      [] wasm_opcode = 35 -> <<69>>
      [] wasm_opcode = 36 -> <<70>>
      [] wasm_opcode = 12 -> <<48>>
      [] wasm_opcode = 13 -> <<49>>
      [] wasm_opcode = 16 -> <<50>>

\* convert_to_vm_bytecode: the opcodes translated to fixed bytes
FixedOpcodes == (106..115) \cup (69..75) \cup {15, 1, 26, 27}

FixedTranslation(wasm_opcode) ==
    CASE wasm_opcode = 106 -> <<16>>
      [] wasm_opcode = 107 -> <<17>>
      [] wasm_opcode = 108 -> <<18>>
      [] wasm_opcode = 109 -> <<19>>
      [] wasm_opcode = 110 -> <<19, 1>>
      [] wasm_opcode = 111 -> <<20>>
      [] wasm_opcode = 112 -> <<20, 1>>
      [] wasm_opcode = 113 -> <<32>>
      [] wasm_opcode = 114 -> <<33>>
      [] wasm_opcode = 115 -> <<34>>
      [] wasm_opcode = 69 -> <<1, 0, 0, 0, 0, 0, 71, 0>>
      [] wasm_opcode \in 70..75 -> <<71, wasm_opcode - 70>>
      [] wasm_opcode = 15 -> <<51>>
      [] wasm_opcode = 1 -> <<240>>
      [] wasm_opcode = 26 -> <<2>>
      [] wasm_opcode = 27 -> <<81>>

\* convert_to_vm_bytecode: one turn of the main loop on [i, vm_bytecode,
\* panic]: the states it can leave behind
ConvertStep(func_body, st, rnd) ==
    IF st.panic \/ st.i >= Len(func_body) THEN {st}
    ELSE
    LET wasm_opcode == At(func_body, st.i)
        i == st.i + 1
        len == Len(func_body)
        Emit(next, bytes) ==
            [i |-> next, vm_bytecode |-> st.vm_bytecode \o bytes, panic |-> FALSE]
        Panic == [i |-> i, vm_bytecode |-> st.vm_bytecode, panic |-> TRUE]
        \* the outcomes of a LEB128 loop that ended at r
        AfterImmediate(r, prefix, suffix) ==
            {Emit(r.next, prefix \o BitsU32Le(r.value) \o suffix)}
            \cup (IF r.overflow THEN {Panic} ELSE {})
    IN  IF wasm_opcode \in ImmediateOpcodes
        THEN IF i < len
             THEN AfterImmediate(ReadImmediate(func_body, i, 0, {}, 32, FALSE),
                                 ImmediatePrefix(wasm_opcode), <<>>)
             ELSE {Emit(i, ImmediatePrefix(wasm_opcode) \o U32Le(0))}
        ELSE IF wasm_opcode = 66
        THEN IF i < len
             THEN AfterImmediate(ReadImmediate(func_body, i, 0, {}, 64, FALSE), <<1, 1>>, <<>>)
             ELSE {Emit(i, <<1, 1>> \o U32Le(0))}
        ELSE IF wasm_opcode \in {67, 68}
        THEN IF i + 3 < len
             THEN {Emit(i + (IF wasm_opcode = 67 THEN 4 ELSE 8),
                        <<1, wasm_opcode - 65>> \o Slice(func_body, i, i + 4))}
             ELSE {Emit(i, <<1, wasm_opcode - 65>> \o U32Le(0))}
        ELSE IF wasm_opcode \in {40, 54}
        THEN IF i + 1 < len
             THEN {Emit(i + 2, <<IF wasm_opcode = 40 THEN 72 ELSE 73,
                                 At(func_body, i), At(func_body, i + 1)>>)}
             ELSE {Emit(i, <<IF wasm_opcode = 40 THEN 72 ELSE 73, 0, 0>>)}
        ELSE IF wasm_opcode = 17
        THEN IF i + 1 < len
             THEN LET r == ReadImmediate(func_body, i, 0, {}, 32, FALSE)
                  IN  IF r.next >= len
                      \* let table_idx = func_body[i] past the end of the body
                      THEN {Panic}
                      ELSE AfterImmediate([r EXCEPT !.next = r.next + 1], <<80>>,
                                          <<At(func_body, r.next)>>)
             ELSE {Emit(i, <<80>> \o U32Le(0) \o <<0>>)}
        ELSE IF wasm_opcode \in FixedOpcodes
        THEN {Emit(i, FixedTranslation(wasm_opcode))}
        ELSE {Emit(i, <<240, wasm_opcode>>)}
             \cup {Emit(i, <<240, wasm_opcode, b>>) : b \in rnd}

\* convert_to_vm_bytecode: up to n turns of the main loop from each state of
\* sts, taken half by half
RECURSIVE ConvertSteps(_, _, _, _)
ConvertSteps(func_body, sts, n, rnd) ==
    IF n <= 1 THEN UNION {ConvertStep(func_body, st, rnd) : st \in sts}
    ELSE LET half == ConvertSteps(func_body, sts, n \div 2, rnd)
         IN  IF half = {} THEN half
             ELSE ConvertSteps(func_body, half, n - (n \div 2), rnd)

\* convert_to_vm_bytecode: the results it can have; a panic ends the
\* process, otherwise Exit (0xFF) is pushed and the bytes are returned
ConvertToVmBytecode(func_body, rnd) ==
    {[panic |-> st.panic,
      vm_bytecode |-> IF st.panic THEN <<>> ELSE Append(st.vm_bytecode, 255)]
        : st \in ConvertSteps(func_body,
                              {[i |-> 0, vm_bytecode |-> <<>>, panic |-> FALSE]},
                              Len(func_body), rnd)}

\* sixteen bytes the generator can draw, one block for each value of rnd
RandomBlocks(rnd, n) == {[i \in 1..n |-> (b + 5 * i) % 256] : b \in rnd}

\* create_vm_metadata: the records it can return
CreateVmMetadata(func_idx, vm_bytecode, rnd) ==
    {U32Le(func_idx) \o U32Le(Len(vm_bytecode)) \o k \o im
        : k \in RandomBlocks(rnd, 16), im \in RandomBlocks(rnd, 16)}

\* encrypt_vm_bytecode: the key stream, one digest for each chunk of 32
\* bytes, each digest hashed with the chunk's length to give the next one
RECURSIVE KeyStream(_, _, _)
KeyStream(hash_result, remaining, acc) ==
    IF remaining <= 0 THEN acc
    ELSE KeyStream(Sha256(hash_result \o <<Min(remaining, 32)>>), remaining - 32,
                   acc \o hash_result)

\* encrypt_vm_bytecode with the salt drawn
EncryptWithSalt(vm_bytecode, vm_metadata, salt) ==
    LET key_start == IF Len(vm_metadata) >= 16 THEN Len(vm_metadata) - 16 ELSE 0
        vmkey == Slice(vm_metadata, key_start, Len(vm_metadata))
        key_stream == KeyStream(Sha256(vmkey \o salt), Len(vm_bytecode), <<>>)
    IN  salt \o [i \in 1..Len(vm_bytecode) |->
                    RotateNibbles(SubstituteNibble(
                        BitXor(vm_bytecode[i],
                               key_stream[((i - 1) % Len(key_stream)) + 1], 8)))]

\* encrypt_vm_bytecode: the outputs it can have
EncryptVmBytecode(vm_bytecode, vm_metadata, rnd) ==
    {EncryptWithSalt(vm_bytecode, vm_metadata, salt) : salt \in RandomBlocks(rnd, 8)}

\* decrypt_bytecode (interpreter.rs)
DecryptBytecode(encrypted_bytes, metadata) ==
    IF Len(metadata) < 8 + 16 THEN Err("Invalid metadata format", <<>>)
    ELSE LET vmkey == Slice(metadata, 8, 8 + 16)
         IN  Ok([i \in 1..Len(encrypted_bytes) |->
                    BitXor(SubstituteNibble(RotateNibbles(encrypted_bytes[i])),
                           vmkey[((i - 1) % 16) + 1], 8)])

(***************************************************************************)
(* Virtualization of the functions of a module                             *)
(* (obfuscation/virtualization.rs).                                        *)
(***************************************************************************)
MinThreshold == 50
MaxThreshold == 200
MaxToVirtualize == 3

\* find_virtualizable_functions, the export loop: every fifth byte from i
\* on is taken as the start of an export entry
RECURSIVE ExportedFuncsFrom(_, _, _)
ExportedFuncsFrom(d, i, exported_funcs) ==
    IF i >= Len(d) THEN exported_funcs
    ELSE ExportedFuncsFrom(d, i + 5,
                           IF i + 4 < Len(d) /\ At(d, i + 3) = 0
                           THEN exported_funcs \cup {At(d, i + 4)}
                           ELSE exported_funcs)

\* find_virtualizable_functions: exported_funcs over every Export section
ExportedFuncs(m) ==
    UNION {ExportedFuncsFrom(m[k].data, 0, {}) : k \in SectionsOfType(m, "Export")}

\* find_virtualizable_functions, one turn of the loop over the Code section:
\* read a size at pos, record what was measured, move past it
FindStep(d, st) ==
    IF st.pos >= Len(d) THEN st
    ELSE LET r == ReadLeb(d, st.pos)
         IN  [pos |-> r.next + r.val,
              func_idx |-> st.func_idx + 1,
              measured |-> Append(st.measured,
                                  [func_idx |-> st.func_idx, start |-> r.next,
                                   size |-> r.val])]

\* n turns of that loop
RECURSIVE FindSteps(_, _, _)
FindSteps(d, st, n) ==
    IF n <= 0 \/ st.pos >= Len(d) THEN st
    ELSE IF n = 1 THEN FindStep(d, st)
    ELSE LET half == FindSteps(d, st, n \div 2)
         IN  IF half.pos >= Len(d) THEN half
             ELSE FindSteps(d, half, n - (n \div 2))

\* find_virtualizable_functions: what the loop measured, a record
\* [func_idx, start, size] for each size it read, in order (pos starts at 0)
MeasuredFunctions(m) ==
    LET cs == SectionsOfType(m, "Code")
    IN  IF cs = {} THEN <<>>
        ELSE LET d == m[SetMin(cs)].data
             IN  FindSteps(d, [pos |-> 0, func_idx |-> 0, measured |-> <<>>],
                           Len(d)).measured

IsVirtualizable(m, f) ==
    /\ f.size > MinThreshold
    /\ f.size < MaxThreshold
    /\ f.func_idx \notin ExportedFuncs(m)

\* find_virtualizable_functions
FindVirtualizableFunctions(m) ==
    LET chosen == SelectSeq(MeasuredFunctions(m), LAMBDA f : IsVirtualizable(m, f))
    IN  [k \in 1..Len(chosen) |-> chosen[k].func_idx]

\* the memory section ensure_memory_section builds: one memory, no maximum,
\* one page
NewMemorySection == Section("Memory", <<1, 0, 1>>)

\* ensure_memory_section, the loop over the sections from i (from 0)
RECURSIVE InsertPosition(_, _, _, _)
InsertPosition(m, i, has_global_section, insert_position) ==
    IF i >= Len(m) THEN insert_position
    ELSE IF m[i + 1].type = "Global" THEN InsertPosition(m, i + 1, TRUE, i + 1)
    ELSE IF m[i + 1].type = "Export"
         THEN (IF ~has_global_section THEN i ELSE insert_position)
    ELSE InsertPosition(m, i + 1, has_global_section, insert_position)

\* Vec::insert(position, x)
InsertAt(v, position, x) ==
    SubSeq(v, 1, position) \o <<x>> \o SubSeq(v, position + 1, Len(v))

\* ensure_memory_section
EnsureMemorySection(m) ==
    IF SectionsOfType(m, "Memory") # {} THEN m
    ELSE InsertAt(m, InsertPosition(m, 0, FALSE, 0), NewMemorySection)

\* the LEB128 loop of extract_function_body returns an error when the data
\* ends before a byte with the high bit clear
LebRunsOff(d, pos) ==
    LET r == ReadLeb(d, pos)
    IN  r.next = pos \/ (r.next >= Len(d) /\ At(d, r.next - 1) >= 128)

\* extract_function_body, the loop that skips the functions before func_idx
RECURSIVE ExtractSkip(_, _, _, _)
ExtractSkip(d, func_idx, func_offset, current_idx) ==
    IF current_idx < func_idx /\ func_offset < Len(d)
    THEN IF LebRunsOff(d, func_offset)
         THEN [ok |-> FALSE, func_offset |-> func_offset, current_idx |-> current_idx]
         ELSE LET r == ReadLeb(d, func_offset)
              IN  ExtractSkip(d, func_idx, r.next + r.val, current_idx + 1)
    ELSE [ok |-> TRUE, func_offset |-> func_offset, current_idx |-> current_idx]

NoBody(e) == [ok |-> FALSE, err |-> e, start |-> 0, end |-> 0, body |-> <<>>]

\* extract_function_body: func_offset starts at 0
ExtractFunctionBody(m, func_idx) ==
    LET cs == SectionsOfType(m, "Code")
    IN  IF cs = {} THEN NoBody("Missing Code section")
        ELSE LET d == m[SetMin(cs)].data
                 w == ExtractSkip(d, func_idx, 0, 0)
             IN  IF ~w.ok \/ w.current_idx # func_idx THEN NoBody("Cannot find function")
                 ELSE IF LebRunsOff(d, w.func_offset)
                      THEN NoBody("Cannot read function size")
                 ELSE LET r == ReadLeb(d, w.func_offset)
                          func_body_start == r.next
                          func_body_end == r.next + r.val
                      IN  IF func_body_end > Len(d)
                          THEN NoBody("Function body exceeds code section range")
                          ELSE [ok |-> TRUE, err |-> "",
                                start |-> func_body_start, end |-> func_body_end,
                                body |-> Slice(d, func_body_start, func_body_end)]

\* the data add_bytecode_to_data_section gives an empty Data section
EmptySegment == <<1, 0, 65, 0, 11, 0>>

\* add_bytecode_to_data_section: [module, bytecode_offset, metadata_offset]
AddBytecodeToDataSection(m, encrypted_bytecode, vm_metadata) ==
    LET ds == SectionsOfType(m, "Data")
        m1 == IF ds = {} THEN Append(m, Section("Data", <<>>)) ELSE m
        data_section_idx == IF ds = {} THEN Len(m1) ELSE SetMin(ds)
        d0 == m1[data_section_idx].data
        d1 == IF d0 = <<>> THEN EmptySegment ELSE d0
    IN  [module |-> [m1 EXCEPT ![data_section_idx].data =
                                   d1 \o encrypted_bytecode \o vm_metadata],
         bytecode_offset |-> Len(d1),
         metadata_offset |-> Len(d1) + Len(encrypted_bytecode)]

\* write_unsigned_leb128
WriteUnsignedLeb128(value) == WriteLeb128(value)

\* read_unsigned_leb128: [val, next]
ReadUnsignedLeb128(d, pos) == ReadLeb(d, pos)

\* replace_with_rust_interpreter: new_func_body
NewFuncBody(bytecode_offset, metadata_offset, bytecode_size) ==
    <<1, 4, 127>>
    \o <<63, 0, 65, 1, 70, 69>>
    \o <<4, 64, 65, 1, 64, 0, 26, 11>>
    \o <<65>> \o WriteUnsignedLeb128(bytecode_offset) \o <<33, 1>>
    \o <<65>> \o WriteUnsignedLeb128(metadata_offset) \o <<33, 2>>
    \o <<65, 0, 33, 3>>
    \o <<32, 0, 32, 3, 54, 2, 0>>
    \o <<65, 0, 33, 0>>
    \o <<3, 64>>
    \o <<32, 0, 65>> \o WriteUnsignedLeb128(bytecode_size) \o <<79, 69, 13, 1>>
    \o <<32, 1, 32, 0, 106, 45, 0, 0>>
    \o <<65, 255, 70>>
    \o <<4, 64, 12, 1, 11>>
    \o <<32, 0, 65, 1, 106, 33, 0>>
    \o <<12, 0>>
    \o <<11>>
    \o <<32, 3, 40, 2, 0>>
    \o <<11>>

\* replace_with_rust_interpreter, the loop that skips the functions before
\* func_idx
RECURSIVE ReplaceSkip(_, _, _, _)
ReplaceSkip(d, func_idx, func_offset, current_idx) ==
    IF current_idx < func_idx /\ func_offset < Len(d)
    THEN LET r == ReadUnsignedLeb128(d, func_offset)
         IN  ReplaceSkip(d, func_idx, r.next + r.val, current_idx + 1)
    ELSE [func_offset |-> func_offset, current_idx |-> current_idx]

NotReplaced(e) == [ok |-> FALSE, err |-> e, module |-> <<>>, start |-> 0, end |-> 0]

\* replace_with_rust_interpreter: the function count is read before the
\* functions are skipped.  start and end delimit the body it replaced.
ReplaceWithRustInterpreter(m, func_idx, bytecode_offset, metadata_offset, bytecode_size) ==
    IF SectionsOfType(m, "Code") = {} THEN NotReplaced("Missing Code section")
    ELSE IF SectionsOfType(m, "Function") = {} THEN NotReplaced("Missing Function section")
    ELSE IF SectionsOfType(m, "Type") = {} THEN NotReplaced("Missing Type section")
    ELSE LET code_section_idx == SetMin(SectionsOfType(m, "Code"))
             d == m[code_section_idx].data
             new_func_body == NewFuncBody(bytecode_offset, metadata_offset, bytecode_size)
             w == ReplaceSkip(d, func_idx, ReadUnsignedLeb128(d, 0).next, 0)
         IN  IF w.current_idx # func_idx \/ w.func_offset >= Len(d)
             THEN NotReplaced("Cannot find function")
             ELSE LET target_func_offset == w.func_offset
                      r == ReadUnsignedLeb128(d, w.func_offset)
                      original_func_end == r.next + r.val
                  IN  IF original_func_end > Len(d)
                      THEN NotReplaced("Function body exceeds code section range")
                      ELSE [ok |-> TRUE, err |-> "",
                            module |-> [m EXCEPT ![code_section_idx].data =
                                Slice(d, 0, target_func_offset)
                                \o WriteUnsignedLeb128(Len(new_func_body))
                                \o new_func_body
                                \o Slice(d, original_func_end, Len(d))],
                            start |-> r.next, end |-> original_func_end]

NotVirtualized(e, panic) ==
    [ok |-> FALSE, panic |-> panic, err |-> e, module |-> <<>>,
     extracted |-> <<0, 0>>, replaced |-> <<0, 0>>, func_body |-> <<>>]

\* virtualize_function with the bytecode, metadata and ciphertext drawn
VirtualizeWith(m1, func_idx, b, vm_bytecode, vm_metadata, encrypted_bytecode) ==
    LET a == AddBytecodeToDataSection(m1, encrypted_bytecode, vm_metadata)
        r == ReplaceWithRustInterpreter(a.module, func_idx, a.bytecode_offset,
                                        a.metadata_offset, Len(encrypted_bytecode))
    IN  IF ~r.ok THEN NotVirtualized(r.err, FALSE)
        ELSE [ok |-> TRUE, panic |-> FALSE, err |-> "", module |-> r.module,
              extracted |-> <<b.start, b.end>>, replaced |-> <<r.start, r.end>>,
              func_body |-> b.body]

\* virtualize_function: the results it can have.  extracted and replaced
\* are the byte ranges of the Code section that extract_function_body read
\* and that replace_with_rust_interpreter replaced.
VirtualizeFunction(m, func_idx, rnd) ==
    LET m1 == EnsureMemorySection(m)
        b == ExtractFunctionBody(m1, func_idx)
    IN  IF ~b.ok THEN {NotVirtualized(b.err, FALSE)}
        ELSE UNION {
               IF c.panic THEN {NotVirtualized("panic", TRUE)}
               ELSE UNION {
                      {VirtualizeWith(m1, func_idx, b, c.vm_bytecode, vm_metadata, e)
                         : e \in EncryptVmBytecode(c.vm_bytecode, vm_metadata, rnd)}
                      : vm_metadata \in CreateVmMetadata(func_idx, c.vm_bytecode, rnd)}
               : c \in ConvertToVmBytecode(b.body, rnd)}

\* virtualize_functions, the loop over selected_funcs from k on.  A run is
\* [panic, module, done]: done lists, for each call of virtualize_function
\* that returned Ok, the index and the ranges it worked on.
RECURSIVE VirtualizeEach(_, _, _, _, _)
VirtualizeEach(modified_module, selected_funcs, k, done, rnd) ==
    IF k > Len(selected_funcs)
    THEN {[panic |-> FALSE, module |-> modified_module, done |-> done]}
    ELSE UNION {
           IF v.panic THEN {[panic |-> TRUE, module |-> <<>>, done |-> done]}
           ELSE IF v.ok
                THEN VirtualizeEach(v.module, selected_funcs, k + 1,
                                    Append(done, [func_idx |-> selected_funcs[k],
                                                  before |-> modified_module,
                                                  extracted |-> v.extracted,
                                                  replaced |-> v.replaced,
                                                  func_body |-> v.func_body]),
                                    rnd)
                ELSE VirtualizeEach(modified_module, selected_funcs, k + 1, done, rnd)
           : v \in VirtualizeFunction(modified_module, selected_funcs[k], rnd)}

\* virtualize_functions: the runs it can have
VirtualizeFunctions(m, rnd) ==
    LET virtualizable_funcs == FindVirtualizableFunctions(m)
    IN  IF virtualizable_funcs = <<>>
        THEN {[panic |-> FALSE, module |-> m, done |-> <<>>]}
        ELSE VirtualizeEach(m,
                            Take(virtualizable_funcs, MaxToVirtualize),
                            1, <<>>, rnd)

(***************************************************************************)
(* Levels (obfuscation/basic.rs, obfuscation/mod.rs).                      *)
(***************************************************************************)
ObfuscationLevels == {"Low", "Medium", "High"}

\* get_transformations
GetTransformations(lv) ==
    CASE lv = "Low" -> <<"rename_locals">>
      [] lv = "Medium" -> <<"rename_locals", "add_dead_code">>
      [] lv = "High" -> <<"rename_locals", "add_dead_code", "obfuscate_control_flow",
                          "split_large_functions">>

\* transform(m) for the transformation of that name: the results it can
\* return
Transform(name, m) ==
    CASE name = "rename_locals" -> RenameLocals(m)
      [] name = "add_dead_code" -> {AddDeadCode(m)}
      [] name = "obfuscate_control_flow" -> {ObfuscateControlFlow(m)}
      [] name = "split_large_functions" -> {SplitLargeFunctions(m)}

\* apply_transformations: try_fold from transformation i on.  A run is
\* [result, applied, stages]: the names of the transformations called and
\* the module each of them returned.
RECURSIVE ApplyTransformationsFrom(_, _, _, _, _)
ApplyTransformationsFrom(m, transformations, i, names, modules) ==
    IF i > Len(transformations)
    THEN {[result |-> OkModule(m), applied |-> names, stages |-> modules]}
    ELSE UNION {
            IF r.ok
            THEN ApplyTransformationsFrom(r.module, transformations, i + 1,
                                          Append(names, transformations[i]),
                                          Append(modules, r.module))
            ELSE {[result |-> r, applied |-> Append(names, transformations[i]),
                   stages |-> modules]}
            : r \in Transform(transformations[i], m)}

\* apply_transformations
ApplyTransformations(m, transformations) ==
    ApplyTransformationsFrom(m, transformations, 1, <<>>, <<>>)

\* obfuscate
Obfuscate(m, lv) == ApplyTransformations(m, GetTransformations(lv))

(***************************************************************************)
(* The modules the obfuscation model starts from: one type () -> (), up to *)
(* MaxImports imported functions, up to MaxFuncs defined functions with    *)
(* bodies from Bodies, any subset of the defined functions exported by     *)
(* their function index (imports come first in the index space), and       *)
(* optionally an exported memory.                                          *)
(***************************************************************************)
MaxImports == 1
MaxFuncs == 2

SmallBody == <<0, 11>>
\* a body of n bytes: no locals, nops, end
NopBody(n) == <<0>> \o Repeat(1, n - 2) \o <<11>>
\* exactly at the threshold, so not large
BoundaryBody == NopBody(LargeThreshold)
LargeBody == NopBody(LargeThreshold + 1)
\* i32.const 0; nops; drop; end: large, the stack never returns to depth 0
\* in the eyes of analyze_instr
UnbalancedBody == <<0, 65, 0>> \o Repeat(1, LargeThreshold - 2) \o <<26, 11>>
\* (local i32 i32) local.get 1; local.set 0; end
LocalsBody == <<1, 2, 127, 32, 1, 33, 0, 11>>

Bodies == {SmallBody, BoundaryBody, LargeBody, UnbalancedBody, LocalsBody}

BodyLists == UNION {[1..n -> Bodies] : n \in 1..MaxFuncs}

RECURSIVE ConcatAll(_, _)
ConcatAll(f, i) == IF i > Len(f) THEN <<>> ELSE f[i] \o ConcatAll(f, i + 1)

TypeSection == Section("Type", <<1, 96, 0, 0>>)
\* each import: "m" "f" func type 0
ImportSection(n) ==
    Section("Import", WriteLeb128(n) \o ConcatAll([i \in 1..n |-> <<1, 109, 1, 102, 0, 0>>], 1))
FunctionSection(n) == Section("Function", WriteLeb128(n) \o Repeat(0, n))
MemorySection == Section("Memory", <<1, 0, 1>>)
\* func_indices: the exported function indices in ascending order
ExportSection(mem, func_indices) ==
    Section("Export",
            WriteLeb128(Len(func_indices) + (IF mem THEN 1 ELSE 0))
            \o (IF mem THEN <<1, 109, 2, 0>> ELSE <<>>)
            \o ConcatAll([i \in 1..Len(func_indices) |->
                            <<1, 102, 0>> \o WriteLeb128(func_indices[i])], 1))
\* one active segment for memory 0 at offset 0 holding the byte 42
DataSection == Section("Data", <<1, 0, 65, 0, 11, 1, 42>>)
\* a custom section named "x" with one byte of payload
CustomSection == Section("Custom", <<1, 120, 7>>)
CodeSection(bodies) ==
    Section("Code",
            WriteLeb128(Len(bodies))
            \o ConcatAll([i \in 1..Len(bodies) |->
                            WriteLeb128(Len(bodies[i])) \o bodies[i]], 1))

RECURSIVE Ascending(_)
Ascending(S) == IF S = {} THEN <<>>
                ELSE <<SetMin(S)>> \o Ascending(S \ {SetMin(S)})

\* exported: the positions (from 0) in the Code section of the exported
\* functions
BuildModule(imports, bodies, exported, mem) ==
    <<TypeSection>>
    \o (IF imports > 0 THEN <<ImportSection(imports)>> ELSE <<>>)
    \o <<FunctionSection(Len(bodies))>>
    \o (IF mem THEN <<MemorySection>> ELSE <<>>)
    \o (IF mem \/ exported # {}
        THEN <<ExportSection(mem, Ascending({imports + k : k \in exported}))>>
        ELSE <<>>)
    \o <<CodeSection(bodies)>>
    \o (IF mem THEN <<DataSection, CustomSection>> ELSE <<>>)

Modules ==
    UNION {{BuildModule(imports, bodies, exported, mem) :
                imports \in 0..MaxImports,
                exported \in SUBSET (0..(Len(bodies) - 1)),
                mem \in BOOLEAN}
           : bodies \in BodyLists}

(***************************************************************************)
(* The obfuscation state machine.  A behaviour is one caller with one      *)
(* parsed module, which it hands either to split_large_functions or to     *)
(* obfuscate at some level.                                                *)
(***************************************************************************)
CryptoIdle ==
    /\ registry = {}
    /\ encInit = FALSE
    /\ decInit = FALSE
    /\ data = <<>>
    /\ key = <<>>
    /\ algorithm = <<>>
    /\ encrypted = <<>>
    /\ envelope = NoResult
    /\ tamper = "none"
    /\ decInput = <<>>
    /\ decKey = <<>>
    /\ decrypted = NoResult
    /\ keyCheck = NoResult

InitObf ==
    /\ CryptoIdle
    /\ module \in Modules
    /\ level = "none"
    /\ pass = "none"
    /\ applied = <<>>
    /\ stages = <<>>
    /\ output = NoOutput
    /\ splitPoints = <<>>
    /\ FileIdle
    /\ VirtIdle
    /\ VmIdle
    /\ LockIdle

\* split_large_functions(module)
SplitLargeFunctionsCall ==
    /\ pass = "none"
    /\ pass' = "split_large_functions"
    /\ applied' = <<"split_large_functions">>
    /\ output' = SplitLargeFunctions(module)
    /\ stages' = IF output'.ok THEN <<output'.module>> ELSE <<>>
    /\ UNCHANGED <<module, level, splitPoints, cryptoVars, fileVars, virtVars, vmVars, lockVars>>

\* obfuscate(module, level)
ObfuscateCall ==
    /\ pass = "none"
    /\ \E lv \in ObfuscationLevels :
         \E run \in Obfuscate(module, lv) :
            /\ level' = lv
            /\ pass' = "obfuscate"
            /\ applied' = run.applied
            /\ stages' = run.stages
            /\ output' = run.result
    /\ UNCHANGED <<module, splitPoints, cryptoVars, fileVars, virtVars, vmVars, lockVars>>

NextObf == SplitLargeFunctionsCall \/ ObfuscateCall

SpecObf == InitObf /\ [][NextObf]_vars

(***************************************************************************)
(* The modules the single-pass model starts from: no imports, five mutable *)
(* i32 globals, and a function whose body is a local declaration header,   *)
(* up to MaxInstrs stack-neutral instruction groups and the final end;     *)
(* the function stands alone or after a function with the smallest body.   *)
(***************************************************************************)
MaxInstrs == 2

Nop == <<1>>
\* nine nops: with one more byte the distance find_safe_split_points asks
\* for between split points
Pad == Repeat(1, MinSplitDistance - 1)
ConstDrop == <<65, 5, 26>>                  \* i32.const 5; drop
Const32Drop == <<65, 32, 26>>               \* i32.const 32; drop
GetDrop == <<32, 1, 26>>                    \* local.get 1; drop
ConstSet == <<65, 7, 33, 5>>                \* i32.const 7; local.set 5
ConstTeeDrop == <<65, 7, 34, 2, 26>>        \* i32.const 7; local.tee 2; drop
GlobalGetSet == <<35, 4, 36, 1>>            \* global.get 4; global.set 1
WideGetDrop == <<32, 200, 1, 26>>           \* local.get 200; drop
\* i32.const 1; if; nop; else; nine nops; end
IfElse == <<65, 1, 4, 64, 1, 5>> \o Pad \o <<11>>
\* block; nine nops; end
Block == <<2, 64>> \o Pad \o <<11>>
Return == <<15>>                            \* return

InstrGroups == {Nop, Pad, ConstDrop, Const32Drop, GetDrop, ConstSet, ConstTeeDrop,
                GlobalGetSet, WideGetDrop, IfElse, Block, Return}

\* (local i32 x8)
NarrowLocals == <<1, 8, 127>>
\* (local i32 x201) (local i64 x4): the first count takes two LEB128 bytes
WideLocals == <<2, 201, 1, 127, 4, 126>>
LocalHeaders == {NarrowLocals, WideLocals}

InstrSeqs == {<<>>} \cup UNION {{ConcatAll(f, 1) : f \in [1..n -> InstrGroups]}
                                : n \in 1..MaxInstrs}

\* a body whose size field takes two bytes once five bytes are added
NearTwoByteSizeBody == <<0>> \o Repeat(1, 122) \o <<11>>

PassBodies ==
    {h \o is \o <<11>> : h \in LocalHeaders, is \in InstrSeqs} \cup {NearTwoByteSizeBody}

GlobalSection ==
    Section("Global", <<5>> \o ConcatAll([i \in 1..5 |-> <<127, 1, 65, 0, 11>>], 1))

BuildPassModule(bodies) ==
    <<TypeSection, FunctionSection(Len(bodies)), GlobalSection, CodeSection(bodies)>>

PassModules ==
    UNION {{BuildPassModule(<<b>>), BuildPassModule(<<SmallBody, b>>)} : b \in PassBodies}

(***************************************************************************)
(* The single-pass state machine.  A behaviour is one caller with one      *)
(* parsed module, which it hands to one pass, or whose function bodies it  *)
(* hands to find_safe_split_points.                                        *)
(***************************************************************************)
InitPass ==
    /\ CryptoIdle
    /\ FileIdle
    /\ VirtIdle
    /\ VmIdle
    /\ LockIdle
    /\ module \in PassModules
    /\ level = "none"
    /\ pass = "none"
    /\ applied = <<>>
    /\ stages = <<>>
    /\ output = NoOutput
    /\ splitPoints = <<>>

\* add_dead_code(module)
AddDeadCodeCall ==
    /\ pass = "none"
    /\ pass' = "add_dead_code"
    /\ applied' = <<"add_dead_code">>
    /\ output' = AddDeadCode(module)
    /\ stages' = <<output'.module>>
    /\ UNCHANGED <<module, level, splitPoints, cryptoVars, fileVars, virtVars, vmVars, lockVars>>

\* rename_locals(module)
RenameLocalsCall ==
    /\ pass = "none"
    /\ \E r \in RenameLocals(module) :
         /\ pass' = "rename_locals"
         /\ applied' = <<"rename_locals">>
         /\ output' = r
         /\ stages' = <<r.module>>
    /\ UNCHANGED <<module, level, splitPoints, cryptoVars, fileVars, virtVars, vmVars, lockVars>>

\* find_safe_split_points(func_body) for each body of the Code section, as
\* find_large_functions slices them
FindSafeSplitPointsCall ==
    /\ pass = "none"
    /\ pass' = "find_safe_split_points"
    /\ LET d == module[SetMin(SectionsOfType(module, "Code"))].data
           func_bodies == FuncBodies(d, 1, <<>>)
       IN  splitPoints' =
               [i \in 1..Len(func_bodies) |->
                   FindSafeSplitPoints(Slice(d, func_bodies[i].pos,
                                             func_bodies[i].pos + func_bodies[i].size))]
    /\ UNCHANGED <<module, level, applied, stages, output, cryptoVars, fileVars, virtVars, vmVars, lockVars>>

NextPass == AddDeadCodeCall \/ RenameLocalsCall \/ FindSafeSplitPointsCall

SpecPass == InitPass /\ [][NextPass]_vars

(***************************************************************************)
(* The file-level encrypt operations: handle_encrypt (main.rs),            *)
(* encrypt_file (crypto/engine.rs) and obfuscate_and_encrypt_wasm          *)
(* (obfuscation/mod.rs).  A behaviour is one run of one of them, step by   *)
(* step; every read, parse, key decoding, encryption and write can fail,   *)
(* and a failure ends the run with an error.  files holds the names of the *)
(* files written: "output" for the ciphertext, "key" for the key file.     *)
(***************************************************************************)
Entries == {"handle_encrypt", "encrypt_file", "obfuscate_and_encrypt_wasm"}

\* the key sources each operation takes: --key-hex, --key-base64 and --key
\* for handle_encrypt, key_file for encrypt_file, none for
\* obfuscate_and_encrypt_wasm
KeySources(e) ==
    CASE e = "handle_encrypt" -> {"none", "key_hex", "key_base64", "key_file"}
      [] e = "encrypt_file" -> {"none", "key_file"}
      [] e = "obfuscate_and_encrypt_wasm" -> {"none"}

\* --generate-key <file> with its --key-format, "none" without the option
KeyOutputs(e) ==
    IF e = "handle_encrypt" THEN {"none", "hex", "base64", "raw"} ELSE {"none"}

InitFile ==
    /\ CryptoIdle
    /\ ObfIdle
    /\ VirtIdle
    /\ VmIdle
    /\ LockIdle
    /\ entry \in Entries
    /\ keySource \in KeySources(entry)
    /\ keyOutput \in KeyOutputs(entry)
    /\ pc = "read"
    /\ generated = FALSE
    /\ files = {}
    /\ status = "running"

\* the run ends: Err(..) to the caller
Fail ==
    /\ pc' = "done"
    /\ status' = "error"
    /\ UNCHANGED <<generated, files>>

\* the input file is read and, in handle_encrypt and
\* obfuscate_and_encrypt_wasm, validated or parsed
ReadInput ==
    /\ pc = "read"
    /\ \/ /\ pc' = IF entry = "obfuscate_and_encrypt_wasm" THEN "obfuscate" ELSE "key"
          /\ UNCHANGED <<generated, files, status>>
       \/ Fail
    /\ UNCHANGED <<entry, keySource, keyOutput, cryptoVars, obfVars,
                 virtVars, vmVars, lockVars>>

\* obfuscate_and_encrypt_wasm: obfuscate and serialize_wasm, then
\* generate_key(32)
ObfuscateAndGenerateKey ==
    /\ pc = "obfuscate"
    /\ \/ /\ pc' = "encrypt"
          /\ generated' = TRUE
          /\ UNCHANGED <<files, status>>
       \/ Fail
    /\ UNCHANGED <<entry, keySource, keyOutput, cryptoVars, obfVars,
                 virtVars, vmVars, lockVars>>

\* handle_encrypt: resolve_key, and without a key source generate_key and,
\* only when a key output file was named, write_key_file_with_format
ResolveOrGenerateKey ==
    /\ pc = "key"
    /\ entry = "handle_encrypt"
    /\ \/ /\ keySource # "none"
          /\ pc' = "encrypt"
          /\ UNCHANGED <<generated, files, status>>
       \/ /\ keySource # "none"
          /\ Fail
       \/ /\ keySource = "none"
          /\ keyOutput = "none"
          /\ pc' = "encrypt"
          /\ generated' = TRUE
          /\ UNCHANGED <<files, status>>
       \/ /\ keySource = "none"
          /\ keyOutput # "none"
          /\ \/ /\ pc' = "encrypt"
                /\ generated' = TRUE
                /\ files' = files \cup {"key"}
                /\ UNCHANGED status
             \/ /\ pc' = "done"
                /\ generated' = TRUE
                /\ status' = "error"
                /\ UNCHANGED files
    /\ UNCHANGED <<entry, keySource, keyOutput, cryptoVars, obfVars,
                 virtVars, vmVars, lockVars>>

\* encrypt_file: load_key(path), or generate_key(32) and save_key next to
\* the output
LoadOrGenerateKey ==
    /\ pc = "key"
    /\ entry = "encrypt_file"
    /\ \/ /\ keySource = "key_file"
          /\ pc' = "encrypt"
          /\ UNCHANGED <<generated, files, status>>
       \/ /\ keySource = "key_file"
          /\ Fail
       \/ /\ keySource = "none"
          /\ pc' = "encrypt"
          /\ generated' = TRUE
          /\ files' = files \cup {"key"}
          /\ UNCHANGED status
       \/ /\ keySource = "none"
          /\ pc' = "done"
          /\ generated' = TRUE
          /\ status' = "error"
          /\ UNCHANGED files
    /\ UNCHANGED <<entry, keySource, keyOutput, cryptoVars, obfVars,
                 virtVars, vmVars, lockVars>>

\* the data is encrypted
EncryptStep ==
    /\ pc = "encrypt"
    /\ \/ /\ pc' = "write"
          /\ UNCHANGED <<generated, files, status>>
       \/ Fail
    /\ UNCHANGED <<entry, keySource, keyOutput, cryptoVars, obfVars,
                 virtVars, vmVars, lockVars>>

\* the ciphertext is written; handle_encrypt and encrypt_file return Ok(())
\* after it, obfuscate_and_encrypt_wasm goes on to save the key
WriteOutput ==
    /\ pc = "write"
    /\ \/ /\ files' = files \cup {"output"}
          /\ pc' = IF entry = "obfuscate_and_encrypt_wasm" THEN "save_key" ELSE "done"
          /\ status' = IF entry = "obfuscate_and_encrypt_wasm" THEN status ELSE "ok"
          /\ UNCHANGED generated
       \/ Fail
    /\ UNCHANGED <<entry, keySource, keyOutput, cryptoVars, obfVars,
                 virtVars, vmVars, lockVars>>

\* obfuscate_and_encrypt_wasm: save_key(&key, &key_path), then Ok(())
SaveKey ==
    /\ pc = "save_key"
    /\ \/ /\ files' = files \cup {"key"}
          /\ pc' = "done"
          /\ status' = "ok"
          /\ UNCHANGED generated
       \/ Fail
    /\ UNCHANGED <<entry, keySource, keyOutput, cryptoVars, obfVars,
                 virtVars, vmVars, lockVars>>

NextFile ==
    \/ ReadInput
    \/ ObfuscateAndGenerateKey
    \/ ResolveOrGenerateKey
    \/ LoadOrGenerateKey
    \/ EncryptStep
    \/ WriteOutput
    \/ SaveKey

SpecFile == InitFile /\ [][NextFile]_vars

(***************************************************************************)
(* The virtualization pipeline on one function body: virtualize_function   *)
(* hands the body to convert_to_vm_bytecode, the bytecode to               *)
(* create_vm_metadata and both to encrypt_vm_bytecode; at run time the     *)
(* interpreter hands the encrypted bytes and the metadata to               *)
(* decrypt_bytecode.  A second caller asks for an obfuscated opcode map.   *)
(***************************************************************************)
MaxBodyLen == 3

\* i32.const, call_indirect, nop, a LEB128 continuation byte, else
VmAlphabet == {65, 17, 1, 128, 5}

VmBodies == UNION {[1..n -> VmAlphabet] : n \in 0..MaxBodyLen}

\* the byte values the generator draws in this state machine
RandomBytes == {0, 165}

InitVm ==
    /\ CryptoIdle
    /\ ObfIdle
    /\ FileIdle
    /\ VirtIdle
    /\ LockIdle
    /\ vmBody \in VmBodies
    /\ vmBytecode = <<>>
    /\ vmMeta = <<>>
    /\ vmEncrypted = <<>>
    /\ vmDecrypted = <<>>
    /\ vmMap = <<>>
    /\ vmPc = "body"

\* convert_to_vm_bytecode(&func_body)
ConvertToVmBytecodeCall ==
    /\ vmPc = "body"
    /\ \E r \in ConvertToVmBytecode(vmBody, RandomBytes) :
         /\ vmBytecode' = r.vm_bytecode
         /\ vmPc' = IF r.panic THEN "panicked" ELSE "converted"
    /\ UNCHANGED <<vmBody, vmMeta, vmEncrypted, vmDecrypted, vmMap,
                   cryptoVars, obfVars, fileVars, virtVars, lockVars>>

\* create_vm_metadata(func_idx, &vm_bytecode)
CreateVmMetadataCall ==
    /\ vmPc = "converted"
    /\ vmMeta' \in CreateVmMetadata(1, vmBytecode, RandomBytes)
    /\ vmPc' = "metadata"
    /\ UNCHANGED <<vmBody, vmBytecode, vmEncrypted, vmDecrypted, vmMap,
                   cryptoVars, obfVars, fileVars, virtVars, lockVars>>

\* encrypt_vm_bytecode(&vm_bytecode, &vm_metadata)
EncryptVmBytecodeCall ==
    /\ vmPc = "metadata"
    /\ vmEncrypted' \in EncryptVmBytecode(vmBytecode, vmMeta, RandomBytes)
    /\ vmPc' = "encrypted"
    /\ UNCHANGED <<vmBody, vmBytecode, vmMeta, vmDecrypted, vmMap,
                   cryptoVars, obfVars, fileVars, virtVars, lockVars>>

\* decrypt_bytecode(bytecode, metadata) in execute_vm_bytecode
DecryptBytecodeCall ==
    /\ vmPc = "encrypted"
    /\ vmDecrypted' = DecryptBytecode(vmEncrypted, vmMeta)
    /\ vmPc' = "decrypted"
    /\ UNCHANGED <<vmBody, vmBytecode, vmMeta, vmEncrypted, vmMap,
                   cryptoVars, obfVars, fileVars, virtVars, lockVars>>

\* generate_obfuscated_opcode_map()
GenerateObfuscatedOpcodeMapCall ==
    /\ vmPc = "body"
    /\ vmMap' \in GenerateObfuscatedOpcodeMap
    /\ vmPc' = "map"
    /\ UNCHANGED <<vmBody, vmBytecode, vmMeta, vmEncrypted, vmDecrypted,
                   cryptoVars, obfVars, fileVars, virtVars, lockVars>>

NextVm ==
    \/ ConvertToVmBytecodeCall
    \/ CreateVmMetadataCall
    \/ EncryptVmBytecodeCall
    \/ DecryptBytecodeCall
    \/ GenerateObfuscatedOpcodeMapCall

SpecVm == InitVm /\ [][NextVm]_vars

(***************************************************************************)
(* Virtualization of a module.  A behaviour is one caller with one parsed  *)
(* module, which it hands either to find_virtualizable_functions or to     *)
(* virtualize_functions.  The modules have their sections in ascending     *)
(* order of section id, with or without Memory, Global, Export and Data    *)
(* sections.                                                               *)
(***************************************************************************)
\* no locals; i32.const 60; drop; end
ConstBody == <<0, 65, 60, 26, 11>>

VirtBodies == {SmallBody, ConstBody, NopBody(MinThreshold), NopBody(MinThreshold + 1),
               NopBody(MaxThreshold)}

VirtBodyLists == UNION {[1..n -> VirtBodies] : n \in 1..MaxFuncs}

\* exported: the positions (from 0) of the exported functions
BuildVirtModule(bodies, exported, mem, global, dat) ==
    <<TypeSection, FunctionSection(Len(bodies))>>
    \o (IF mem THEN <<MemorySection>> ELSE <<>>)
    \o (IF global THEN <<GlobalSection>> ELSE <<>>)
    \o (IF exported # {} THEN <<ExportSection(FALSE, Ascending(exported))>> ELSE <<>>)
    \o <<CodeSection(bodies)>>
    \o (IF dat THEN <<DataSection>> ELSE <<>>)

VirtModules ==
    UNION {{BuildVirtModule(bodies, exported, mem, global, dat) :
                exported \in {e \in SUBSET (0..(Len(bodies) - 1)) : Cardinality(e) <= 1},
                mem \in BOOLEAN, global \in BOOLEAN, dat \in BOOLEAN}
           : bodies \in VirtBodyLists}

\* the one value the generator draws in this state machine
VirtRandomBytes == {7}

InitVirt ==
    /\ CryptoIdle
    /\ FileIdle
    /\ VmIdle
    /\ LockIdle
    /\ VirtIdle
    /\ module \in VirtModules
    /\ level = "none"
    /\ pass = "none"
    /\ applied = <<>>
    /\ stages = <<>>
    /\ output = NoOutput
    /\ splitPoints = <<>>

\* find_virtualizable_functions(&module)
FindVirtualizableFunctionsCall ==
    /\ pass = "none"
    /\ module # NoModule
    /\ virtualizable' = FindVirtualizableFunctions(module)
    /\ pass' = "find_virtualizable_functions"
    /\ UNCHANGED <<module, level, applied, stages, output, splitPoints, virtualized,
                   cryptoVars, fileVars, vmVars, lockVars>>

\* virtualize_functions(module)
VirtualizeFunctionsCall ==
    /\ pass = "none"
    /\ module # NoModule
    /\ \E r \in VirtualizeFunctions(module, VirtRandomBytes) :
         /\ output' = IF r.panic THEN ErrModule("panic") ELSE OkModule(r.module)
         /\ virtualized' = r.done
    /\ pass' = "virtualize_functions"
    /\ UNCHANGED <<module, level, applied, stages, splitPoints, virtualizable,
                   cryptoVars, fileVars, vmVars, lockVars>>

NextVirt ==
    \/ FindVirtualizableFunctionsCall
    \/ VirtualizeFunctionsCall

SpecVirt == InitVirt /\ [][NextVirt]_vars

(***************************************************************************)
(* The plugin registry under concurrent callers (crypto/plugins/mod.rs).   *)
(* PLUGIN_MANAGER is a Mutex; each thread makes one call of                *)
(* register_builtin_plugins, encrypt_with_plugin or decrypt_with_plugin.   *)
(* `let manager = PLUGIN_MANAGER.lock().unwrap()` binds the guard to a     *)
(* local of the function, so the lock is released when the function        *)
(* returns.                                                                *)
(***************************************************************************)
NumThreads == 2

ThreadIds == 1..NumThreads

LockData == <<1, 2>>
LockNonce == Repeat(0, NonceLen)
LockCiphertext == PluginEncrypt(AesGcmName, LockData, ZeroKey, LockNonce).bytes

PluginCalls ==
    {[op |-> o, plugin_name |-> n] :
        o \in {"encrypt_with_plugin", "decrypt_with_plugin"},
        n \in {AesGcmName, UnknownName}}
    \cup {[op |-> "register_builtin_plugins", plugin_name |-> <<>>]}

InitLock ==
    /\ CryptoIdle
    /\ ObfIdle
    /\ FileIdle
    /\ VirtIdle
    /\ VmIdle
    /\ guard = NoThread
    /\ \E calls \in [ThreadIds -> PluginCalls] :
         threads = [t \in ThreadIds |->
                      [op |-> calls[t].op, plugin_name |-> calls[t].plugin_name,
                       pc |-> "start", result |-> NoResult]]

LockUnchanged ==
    UNCHANGED <<encInit, decInit, data, key, algorithm, encrypted, envelope, tamper,
                decInput, decKey, decrypted, keyCheck,
                obfVars, fileVars, virtVars, vmVars>>

\* PLUGIN_MANAGER.lock().unwrap(): blocks while another thread holds the
\* guard
Lock(t) ==
    /\ threads[t].pc = "start"
    /\ guard = NoThread
    /\ guard' = t
    /\ threads' = [threads EXCEPT ![t].pc = "locked"]
    /\ UNCHANGED registry
    /\ LockUnchanged

\* register_builtin_plugins: manager.register_plugin for both providers
RegisterPlugins(t) ==
    /\ threads[t].pc = "locked"
    /\ threads[t].op = "register_builtin_plugins"
    /\ registry' = RegisterBuiltinPlugins(registry)
    /\ threads' = [threads EXCEPT ![t].pc = "return", ![t].result = Ok(<<>>)]
    /\ UNCHANGED guard
    /\ LockUnchanged

\* manager.get_plugin(plugin_name): Some(plugin) or the bail! of the else
\* branch
GetPlugin(t) ==
    /\ threads[t].pc = "locked"
    /\ threads[t].op # "register_builtin_plugins"
    /\ threads' = IF threads[t].plugin_name \in registry
                  THEN [threads EXCEPT ![t].pc = "call"]
                  ELSE [threads EXCEPT ![t].pc = "return",
                                       ![t].result = Err("Plugin not found",
                                                         threads[t].plugin_name)]
    /\ UNCHANGED <<guard, registry>>
    /\ LockUnchanged

\* plugin.encrypt(data, key) / plugin.decrypt(data, key), inside the if let
PluginCall(t) ==
    /\ threads[t].pc = "call"
    /\ threads' = [threads EXCEPT
                     ![t].pc = "return",
                     ![t].result =
                         IF threads[t].op = "encrypt_with_plugin"
                         THEN PluginEncrypt(threads[t].plugin_name, LockData, ZeroKey,
                                            LockNonce)
                         ELSE PluginDecrypt(threads[t].plugin_name, LockCiphertext,
                                            ZeroKey)]
    /\ UNCHANGED <<guard, registry>>
    /\ LockUnchanged

\* the function returns: `manager` goes out of scope and the lock is
\* released
Unlock(t) ==
    /\ threads[t].pc = "return"
    /\ guard = t
    /\ guard' = NoThread
    /\ threads' = [threads EXCEPT ![t].pc = "done"]
    /\ UNCHANGED registry
    /\ LockUnchanged

NextLock ==
    \E t \in ThreadIds :
        \/ Lock(t)
        \/ RegisterPlugins(t)
        \/ GetPlugin(t)
        \/ PluginCall(t)
        \/ Unlock(t)

SpecLock == InitLock /\ [][NextLock]_vars

(***************************************************************************)
(* Properties of the envelope codec, checked under SpecCrypto.             *)
(***************************************************************************)
EncryptCalled == envelope # NoResult
DecryptCalled == decrypted # NoResult
KeyCheckCalled == keyCheck # NoResult

\* the header decrypt_data was handed
DecHeader == EnvelopeHeaderOf(decInput)

\* C1: for both built-in algorithms, every plaintext (the empty one included)
\* and every 32-byte key, decrypting the envelope encrypt_data returned, with
\* the same key, returns exactly the plaintext.
C1_EnvelopeRoundTrip ==
    (DecryptCalled /\ tamper = "none" /\ decKey = key)
        => (decrypted.ok /\ decrypted.bytes = data)

C1_Witness ==
    /\ DecryptCalled /\ tamper = "none" /\ decKey = key
    /\ algorithm = ChaChaName /\ Len(data) = MaxPlainLen /\ decrypted.ok

\* C2: for both built-in algorithms the output of encrypt_data is
\* u32_le(h) || header || body, h the byte length of the JSON header and body
\* the provider output without its first 12 bytes, so the output is
\* 4 + h + len(provider output) - 12 bytes long.
C2_EnvelopeLayout ==
    (envelope.ok /\ algorithm \in BuiltinNames) =>
        LET out == envelope.bytes
            header == HeaderJson(algorithm, SubSeq(encrypted, 1, 12))
            h == Len(header)
        IN  /\ Len(out) = 4 + h + Len(encrypted) - 12
            /\ SubSeq(out, 1, 4) = <<h % 256, (h \div 256) % 256, 0, 0>>
            /\ SubSeq(out, 5, 4 + h) = header
            /\ SubSeq(out, 5 + h, Len(out)) = SubSeq(encrypted, 13, Len(encrypted))

C2_Witness ==
    /\ envelope.ok /\ algorithm = AesGcmName /\ Len(data) > 0
    /\ Len(envelope.bytes) = 4 + FromU32LE(envelope.bytes) + Len(data) + 16

\* C3: in every envelope encrypt_data produces for a built-in algorithm the
\* header's nonce array is the 12 bytes the provider prepended to its output,
\* in order, and the header's algorithm is the name passed to encrypt_data.
C3_HeaderFidelity ==
    (envelope.ok /\ algorithm \in BuiltinNames) =>
        LET h == EnvelopeHeaderOf(envelope.bytes)
        IN  /\ h.ok /\ h.hasNonce
            /\ Len(h.nonce) = 12
            /\ \A i \in 1..12 : h.nonce[i] = encrypted[i]
            /\ h.algorithm = algorithm

C3_Witness ==
    /\ envelope.ok /\ algorithm = ChaChaName
    /\ EnvelopeHeaderOf(envelope.bytes).nonce[3] = 255

\* C4: for both algorithms, decrypting an envelope with a 32-byte key other
\* than the 32-byte key it was encrypted with returns an error, never bytes.
C4_WrongKeyFails ==
    (DecryptCalled /\ tamper = "none" /\ Len(key) = 32 /\ Len(decKey) = 32 /\ decKey # key)
        => (~decrypted.ok /\ decrypted.bytes = <<>>)

C4_Witness ==
    /\ DecryptCalled /\ tamper = "none" /\ key = ZeroKey /\ decKey = CountKey
    /\ ~decrypted.ok

\* C5: decrypt_data returns an error for every envelope whose header's nonce
\* is not an array of exactly 12 integers, each in 0..255.
C5_MalformedNonceRejected ==
    (/\ DecryptCalled
     /\ DecHeader.ok /\ DecHeader.hasNonce
     /\ ~(/\ Len(DecHeader.nonce) = 12
          /\ \A i \in 1..Len(DecHeader.nonce) : DecHeader.nonce[i] \in 0..255))
        => ~decrypted.ok

\* C6: encrypt_data with an algorithm name that is not in the registry, and
\* decrypt_data on an envelope whose header names an algorithm that is not in
\* the registry, return an error naming the missing provider and no bytes.
C6_MissingProviderNamed ==
    /\ (EncryptCalled /\ algorithm \notin registry)
         => (envelope = Err("Plugin not found", algorithm) /\ encrypted = <<>>)
    /\ (/\ DecryptCalled
        /\ DecHeader.ok /\ DecHeader.hasNonce
        /\ \A i \in 1..Len(DecHeader.nonce) : IsU64(DecHeader.nonce[i])
        /\ DecHeader.algorithm \notin registry)
         => decrypted = Err("Plugin not found", DecHeader.algorithm)

C6_Witness ==
    /\ DecryptCalled /\ tamper = "algorithmUnknown"
    /\ DecHeader.algorithm = UnknownName /\ UnknownName \notin registry
    /\ ~decrypted.ok

\* C7: for both built-in algorithms encryption and decryption return an error
\* for every key that is not exactly 32 bytes long, validate_key_for_algorithm
\* rejects such a key with a KeyManagement error, and no bytes are produced.
C7_KeyLengthChecked ==
    /\ (EncryptCalled /\ algorithm \in BuiltinNames /\ Len(key) # 32)
         => (~envelope.ok /\ envelope.bytes = <<>> /\ encrypted = <<>>)
    /\ (DecryptCalled /\ Len(decKey) # 32)
         => (~decrypted.ok /\ decrypted.bytes = <<>>)
    /\ (KeyCheckCalled /\ Len(key) # 32)
         => (~keyCheck.ok /\ keyCheck.err = "KeyManagement")

C7_Witness ==
    /\ EncryptCalled /\ KeyCheckCalled /\ Len(key) = 33
    /\ ~envelope.ok /\ ~keyCheck.ok


(***************************************************************************)
(* Properties of the obfuscation passes, checked under SpecObf.            *)
(***************************************************************************)
SplitCalled == pass = "split_large_functions"
ObfuscateCalled == pass = "obfuscate"

\* the number of imported functions: the entries of kind 0x00 of the Import
\* sections the module generator writes (function imports only)
ImportedFuncs(m) ==
    LET is == SectionsOfType(m, "Import")
    IN  IF is = {} THEN 0 ELSE ReadLeb(m[SetMin(is)].data, 0).val

\* the bodies of the Code section, in order, without their size fields
CodeBodies(m) ==
    LET d == m[SetMin(SectionsOfType(m, "Code"))].data
        func_bodies == FuncBodies(d, ReadLeb(d, 0).next, <<>>)
    IN  [i \in 1..Len(func_bodies) |->
            Slice(d, func_bodies[i].pos, func_bodies[i].pos + func_bodies[i].size)]

\* the positions (from 0) in the Code section of the functions a function
\* export refers to: a function index counts the imported functions first
ExportedCodePositions(m) ==
    {e - ImportedFuncs(m) : e \in {x \in GetExportedFunctions(m) : x >= ImportedFuncs(m)}}

\* the table of section 4.3.6: the passes of each level, left to right
LevelPasses(lv) ==
    CASE lv = "Low" -> <<"rename_locals">>
      [] lv = "Medium" -> <<"rename_locals", "add_dead_code">>
      [] lv = "High" -> <<"rename_locals", "add_dead_code", "obfuscate_control_flow",
                          "split_large_functions", "virtualize_functions">>

\* C8: obfuscate(module, level) applies the passes of the level left to
\* right: Low only rename_locals, Medium rename_locals then add_dead_code,
\* High exactly rename_locals, add_dead_code, obfuscate_control_flow,
\* split_large_functions, virtualize_functions in that order.
C8_LevelPassOrder ==
    (ObfuscateCalled /\ output.ok) => applied = LevelPasses(level)

\* C9: split_large_functions never replaces the body of a function that a
\* function export refers to: the body of every exported function is the
\* same bytes before and after the pass, modules that import functions
\* included.
C9_ExportedBodiesKept ==
    (SplitCalled /\ output.ok) =>
        \A k \in ExportedCodePositions(module) :
            CodeBodies(output.module)[k + 1] = CodeBodies(module)[k + 1]

\* C10: when the Code section has a function that no function export refers
\* to, with a body over 100 bytes and at least one safe split point,
\* split_large_functions returns a module with strictly more functions.
C10_SplitGrowsFunctionCount ==
    (/\ SplitCalled
     /\ \E k \in 0..(Len(CodeBodies(module)) - 1) :
            /\ k \notin ExportedCodePositions(module)
            /\ Len(CodeBodies(module)[k + 1]) > 100
            /\ Len(FindSafeSplitPoints(CodeBodies(module)[k + 1])) >= 1)
        => (output.ok /\ CountFuncs(output.module) > CountFuncs(module))

\* the Function section (the last one, as split_function takes it)
FunctionData(m) == m[SetMax(SectionsOfType(m, "Function"))].data

\* the Code section (the last one)
CodeData(m) == m[SetMax(SectionsOfType(m, "Code"))].data

\* the number of type indices the Function section holds after its count:
\* one per byte with the high bit clear
TypeIndexCount(m) ==
    LET d == FunctionData(m)
    IN  Cardinality({i \in (ReadLeb(d, 0).next + 1)..Len(d) : d[i] < 128})

\* the number of bodies the Code section holds after its count, -1 when the
\* last size field reaches past the end of the section
BodyCount(m) ==
    LET d == CodeData(m)
        func_bodies == FuncBodies(d, ReadLeb(d, 0).next, <<>>)
        n == Len(func_bodies)
    IN  IF n > 0 /\ func_bodies[n].pos + func_bodies[n].size # Len(d) THEN 0 - 1
        ELSE n

\* the leading counts agree with the contents and with each other
CountsConsistent(m) ==
    /\ ReadLeb(FunctionData(m), 0).val = TypeIndexCount(m)
    /\ ReadLeb(CodeData(m), 0).val = BodyCount(m)
    /\ ReadLeb(FunctionData(m), 0).val = ReadLeb(CodeData(m), 0).val

\* C11: if the Function section's count equals the number of Code bodies
\* before split_large_functions, then afterwards the Function section's
\* count equals the number of type indices it holds, the Code section's
\* count equals the number of bodies it holds and the two counts are equal,
\* however many functions were split.
C11_CountsConsistentAfterSplit ==
    (SplitCalled /\ ReadLeb(FunctionData(module), 0).val = BodyCount(module))
        => (output.ok /\ CountsConsistent(output.module))

C11_Witness ==
    /\ SplitCalled /\ output.ok
    /\ CountsConsistent(module)
    /\ Len(FindLargeFunctions(module, GetExportedFunctions(module))) = 2
    /\ BodyCount(output.module) > BodyCount(module) + 2

\* the sequence b ends with the bytes of suffix
EndsWith(b, suffix) ==
    /\ Len(b) >= Len(suffix)
    /\ Slice(b, Len(b) - Len(suffix), Len(b)) = suffix

\* C17: for a function split at N >= 1 points, the replaced body is exactly
\* `call <first_sub_idx>; end` with no locals, every sub-function i < N ends
\* with `call <LEB128(next_sub_idx)>` followed by the end opcode 0x0B, and
\* the last sub-function ends with 0x0B, whatever next_sub_idx is.  The
\* sub-functions are taken where the trampoline's operand says the first
\* one is, counted in the Code section.
C17_TrampolineAndChain ==
    (SplitCalled /\ output.ok) =>
        LET before == CodeBodies(module)
            after == CodeBodies(output.module)
        IN  \A k \in 1..Len(before) :
                after[k] # before[k] =>
                    LET N == Len(FindSafeSplitPoints(before[k]))
                        first_sub_idx == ReadLeb(after[k], 2).val
                    IN  /\ N >= 1
                        /\ after[k] = <<0, 16>> \o WriteLeb128(first_sub_idx) \o <<11>>
                        /\ first_sub_idx + N + 1 <= Len(after)
                        /\ \A i \in 0..(N - 1) :
                               EndsWith(after[first_sub_idx + i + 1],
                                        <<16>> \o WriteLeb128(first_sub_idx + i + 1)
                                        \o <<11>>)
                        /\ EndsWith(after[first_sub_idx + N + 1], <<11>>)

\* C22: split_large_functions changes only the Function and Code sections:
\* the Type section and every other section (Import, Export, Memory, Data,
\* custom) are the same bytes as in the input, and the number and order of
\* the sections is unchanged.
C22_SplitKeepsOtherSections ==
    (SplitCalled /\ output.ok) =>
        /\ Len(output.module) = Len(module)
        /\ \A i \in 1..Len(module) :
             /\ output.module[i].type = module[i].type
             /\ module[i].type \notin {"Function", "Code"}
                    => output.module[i] = module[i]

C22_Witness ==
    /\ SplitCalled /\ output.ok
    /\ {module[i].type : i \in 1..Len(module)}
           = {"Type", "Import", "Function", "Memory", "Export", "Code", "Data", "Custom"}
    /\ FunctionData(output.module) # FunctionData(module)
    /\ CodeData(output.module) # CodeData(module)

(***************************************************************************)
(* Properties of the single passes, checked under SpecPass.                *)
(***************************************************************************)
AddDeadCodeCalled == pass = "add_dead_code"
RenameLocalsCalled == pass = "rename_locals"
FindSafeSplitPointsCalled == pass = "find_safe_split_points"

\* the position after the local declarations of a body, read as the binary
\* format defines them: a LEB128 group count, then for each group a LEB128
\* count and a value type byte
RECURSIVE LocalGroupsEnd(_, _, _)
LocalGroupsEnd(b, pos, n) ==
    IF n = 0 THEN pos ELSE LocalGroupsEnd(b, ReadLeb(b, pos).next + 1, n - 1)

DeclsEnd(b) == LocalGroupsEnd(b, ReadLeb(b, 0).next, ReadLeb(b, 0).val)

\* a body with five nops between its declarations and its instructions
WithFiveNops(b) ==
    Slice(b, 0, DeclsEnd(b)) \o <<1, 1, 1, 1, 1>> \o Slice(b, DeclsEnd(b), Len(b))

\* every section that is not a Code section is the same in m1 and m2
OtherSectionsSame(m1, m2) ==
    /\ Len(m1) = Len(m2)
    /\ \A i \in 1..Len(m1) :
         /\ m2[i].type = m1[i].type
         /\ m1[i].type # "Code" => m2[i] = m1[i]

\* C12: add_dead_code keeps the leading function count of the Code section
\* and replaces each body by its local declarations, five nop bytes and its
\* instructions, under a LEB128 size equal to the old length plus five; the
\* Code section grows and no other section changes.
C12_DeadCodeAfterDecls ==
    AddDeadCodeCalled =>
        LET bodies == CodeBodies(module)
        IN  /\ output.ok
            /\ CodeData(output.module) =
                   WriteLeb128(Len(bodies))
                   \o ConcatAll([i \in 1..Len(bodies) |->
                                    WriteLeb128(Len(bodies[i]) + 5)
                                    \o WithFiveNops(bodies[i])], 1)
            /\ Len(CodeData(output.module)) > Len(CodeData(module))
            /\ OtherSectionsSame(module, output.module)

C12_Witness ==
    /\ AddDeadCodeCalled /\ output.ok
    /\ CodeBodies(module) = <<SmallBody, WideLocals \o ConstSet \o IfElse \o <<11>> >>
    /\ Len(CodeBodies(output.module)[2]) = Len(CodeBodies(module)[2]) + 5

\* the position after the instruction at pos, read as the binary format
\* defines the opcodes the bodies use: a block type byte after block, loop
\* and if, a LEB128 immediate after br, br_if, call, local.get, local.set,
\* local.tee, global.get, global.set and i32.const, nothing after the rest
InstrEnd(d, pos) ==
    LET op == At(d, pos)
    IN  IF op \in {2, 3, 4} THEN pos + 2
        ELSE IF op \in {12, 13, 16, 65} \cup (32..36) THEN SkipLeb(d, pos + 1)
        ELSE pos + 1

\* one more instruction of d read at st.pos, unless st.pos has reached end
InstrStep(d, st, end) ==
    IF st.pos >= end THEN st
    ELSE LET next == InstrEnd(d, st.pos)
         IN  [pos |-> next,
              instrs |-> st.instrs
                         \cup {[pos |-> st.pos, op |-> At(d, st.pos), next |-> next]}]

\* up to n more instructions of d read from st on, taken half by half
RECURSIVE InstrSteps(_, _, _, _)
InstrSteps(d, st, end, n) ==
    IF n <= 1 THEN InstrStep(d, st, end)
    ELSE LET half == InstrSteps(d, st, end, n \div 2)
         IN  IF half.pos >= end THEN half
             ELSE InstrSteps(d, half, end, n - (n \div 2))

\* the instructions of d between pos and end, added to acc: where each
\* starts, its opcode and where it ends
InstrsFrom(d, pos, end, acc) ==
    InstrSteps(d, [pos |-> pos, instrs |-> acc], end, Len(d)).instrs

\* the instructions of the n bodies of Code section contents d from pos on
RECURSIVE BodiesInstrs(_, _, _, _)
BodiesInstrs(d, pos, n, acc) ==
    IF n = 0 THEN acc
    ELSE LET size == ReadLeb(d, pos)
             end == size.next + size.val
             code == size.next + DeclsEnd(Slice(d, size.next, end))
         IN  BodiesInstrs(d, end, n - 1, InstrsFrom(d, code, end, acc))

\* the instructions of all bodies of Code section contents d
Instrs(d) == BodiesInstrs(d, ReadLeb(d, 0).next, ReadLeb(d, 0).val, {})

\* the positions of the index operand bytes of the instructions of d whose
\* opcode is in ops
IndexOperandBytes(d, ops) ==
    UNION {(i.pos + 1)..(i.next - 1) : i \in {j \in Instrs(d) : j.op \in ops}}

\* the positions of the single-byte index operands of the instructions of d
\* whose opcode is in ops
SingleByteIndexOperands(d, ops) ==
    {i.pos + 1 : i \in {j \in Instrs(d) : j.op \in ops /\ j.next = j.pos + 2}}

\* the positions where the contents d1 and d2, of one length, differ
ChangedBytes(d1, d2) == {p \in 0..(Len(d1) - 1) : At(d1, p) # At(d2, p)}

\* C14: rename_locals modifies only bytes that are the index operand of a
\* local.get or local.tee instruction inside a function body: no opcode, no
\* immediate of another instruction, no local declaration, no body size
\* prefix and not the function count.
C14_OnlyLocalIndexOperands ==
    RenameLocalsCalled =>
        ChangedBytes(CodeData(module), CodeData(output.module))
            \subseteq IndexOperandBytes(CodeData(module), {32, 34})

\* C15: rename_locals never changes the length of the Code section; every
\* byte it rewrites gets a value v with 0 <= v <= min(original value, 3), so
\* no index is increased; an index whose first operand byte has the high bit
\* set is left unchanged; all sections other than Code are unchanged.
C15_RenameNeverIncreases ==
    RenameLocalsCalled =>
        LET d1 == CodeData(module)
            d2 == CodeData(output.module)
        IN  /\ output.ok
            /\ Len(d2) = Len(d1)
            /\ \A p \in ChangedBytes(d1, d2) : At(d2, p) <= Min(At(d1, p), 3)
            /\ \A p \in SingleByteIndexOperands(d1, 32..36) : At(d2, p) <= At(d1, p)
            /\ \A i \in Instrs(d1) :
                 (i.op \in 32..36 /\ At(d1, i.pos + 1) >= 128)
                     => Slice(d2, i.pos, i.next) = Slice(d1, i.pos, i.next)
            /\ OtherSectionsSame(module, output.module)

C15_Witness ==
    /\ RenameLocalsCalled /\ output.ok
    /\ CodeBodies(module) = <<NarrowLocals \o GetDrop \o WideGetDrop \o <<11>> >>
    /\ CodeBodies(output.module) =
           <<NarrowLocals \o <<32, 0, 26>> \o WideGetDrop \o <<11>> >>

\* C16: rename_locals treats every instruction with opcode 0x20..=0x24
\* (local.get, local.set, local.tee, global.get, global.set) and a
\* single-byte index operand as a rewrite candidate: for each of the five
\* opcodes the operand is replaced by a value in 0..=min(original, 3).
C16_FiveOpcodesRewritten ==
    RenameLocalsCalled =>
        \A p \in SingleByteIndexOperands(CodeData(module), 32..36) :
            At(CodeData(output.module), p) <= Min(At(CodeData(module), p), 3)

\* the instructions of the body b, after its local declarations
BodyInstrs(b) == InstrsFrom(b, DeclsEnd(b), Len(b), {})

\* the positions of b where an instruction starts or the last one ends
InstrBoundaries(b) == {i.pos : i \in BodyInstrs(b)} \cup {i.next : i \in BodyInstrs(b)}

\* the number of block, loop and if constructs of b opened before position p
\* and not closed by an end before p
OpenBlocks(b, p) ==
    Cardinality({i \in BodyInstrs(b) : i.op \in {2, 3, 4} /\ i.pos < p})
    - Cardinality({i \in BodyInstrs(b) : i.op = 11 /\ i.pos < p})

\* the split points find_safe_split_points returned for body k
SplitPointsOf(k) == {splitPoints[k][j] : j \in 1..Len(splitPoints[k])}

\* C19: every split point returned by find_safe_split_points is an
\* instruction boundary: it never falls between an opcode and the bytes of
\* that opcode's immediate operand.
C19_SplitPointsAtInstrBoundaries ==
    FindSafeSplitPointsCalled =>
        \A k \in 1..Len(splitPoints) :
            SplitPointsOf(k) \subseteq InstrBoundaries(CodeBodies(module)[k])

\* C20: no split point returned by find_safe_split_points lies inside an
\* open block, loop or if construct, the else arm of an if included: at
\* every reported position every block opened earlier in the body has been
\* closed by its matching end.
C20_SplitPointsOutsideBlocks ==
    FindSafeSplitPointsCalled =>
        \A k \in 1..Len(splitPoints) :
            \A p \in SplitPointsOf(k) : OpenBlocks(CodeBodies(module)[k], p) <= 0

\* C21: no split point returned by find_safe_split_points is the position
\* immediately after a return opcode (0x0F).
C21_NoSplitPointAfterReturn ==
    FindSafeSplitPointsCalled =>
        \A k \in 1..Len(splitPoints) :
            \A p \in SplitPointsOf(k) :
                \A i \in BodyInstrs(CodeBodies(module)[k]) : ~(i.op = 15 /\ i.next = p)

(***************************************************************************)
(* Properties of split_large_functions that read the instructions of the   *)
(* bodies, checked under SpecObf.                                          *)
(***************************************************************************)
\* the function indices the call instructions of the body b name
CallTargets(b) ==
    {ReadLeb(b, i.pos + 1).val
        : i \in {j \in InstrsFrom(b, DeclsEnd(b), Len(b), {}) : j.op = 16}}

\* C18: after split_large_functions every call the pass inserted, in the
\* trampoline and in each non-last sub-function, names, in the function
\* index space where the imported functions come first, a sub-function the
\* same split appended: a sub-function calls the one appended right after
\* it, a trampoline calls the first of a run of appended sub-functions; and
\* the functions that existed before keep their indices.  (The generated
\* bodies hold no call, so every call of the output was inserted.)
C18_CallsTargetAppended ==
    (SplitCalled /\ output.ok) =>
        LET before == CodeBodies(module)
            after == CodeBodies(output.module)
            imports == ImportedFuncs(output.module)
        IN  /\ imports = ImportedFuncs(module)
            /\ Len(after) >= Len(before)
            /\ \A q \in 1..Len(before) :
                 \/ after[q] = before[q]
                 \/ \A t \in CallTargets(after[q]) :
                      LET p == t - imports + 1
                      IN  /\ p > Len(before) /\ p <= Len(after)
                          /\ p = Len(before) + 1 \/ CallTargets(after[p - 1]) = {}
            /\ \A q \in (Len(before) + 1)..Len(after) :
                 \A t \in CallTargets(after[q]) : t - imports + 1 = q + 1

(***************************************************************************)
(* Properties of the file-level operations, checked under SpecFile.        *)
(***************************************************************************)
\* C13: whenever an encrypt operation generated a fresh key because no key
\* source was supplied, the key has been written to a key file by the time
\* the operation reports success.
C13_GeneratedKeySaved ==
    (status = "ok" /\ generated) => "key" \in files

(***************************************************************************)
(* Properties of the virtualization pipeline, checked under SpecVm.        *)
(***************************************************************************)
\* C26: for every opcode stream B and metadata M built by
\* create_vm_metadata, decrypt_bytecode of encrypt_vm_bytecode(B, M) under
\* the same M returns exactly B: the 8-byte salt is consumed and not
\* returned as bytecode, and both sides take the key stream from the same
\* 16-byte key of M.
C26_DecryptInvertsEncrypt ==
    vmPc = "decrypted" => (vmDecrypted.ok /\ vmDecrypted.bytes = vmBytecode)

\* C27: generate_obfuscated_opcode_map always returns a permutation of the
\* byte values (every value appears exactly once) in which the entry of
\* Exit is Exit, for every outcome of the shuffle.
C27_OpcodeMapIsPermutation ==
    vmPc = "map" =>
        /\ vmMap[ExitCode + 1] = ExitCode
        /\ \A v \in 0..(MapSize - 1) :
               Cardinality({k \in 1..MapSize : vmMap[k] = v}) = 1

\* a body made only of nops and of i32.const instructions whose immediate
\* is one LEB128 byte
RECURSIVE IsConstNopBody(_)
IsConstNopBody(body) ==
    IF body = <<>> THEN TRUE
    ELSE IF body[1] = 1 THEN IsConstNopBody(Tail(body))
    ELSE IF body[1] = 65 /\ Len(body) >= 2 /\ body[2] < 128
         THEN IsConstNopBody(Tail(Tail(body)))
    ELSE FALSE

\* the stream the interpreters' operand widths call for: Push and one
\* immediate byte per i32.const, Nop per nop
RECURSIVE OneBytePushes(_)
OneBytePushes(body) ==
    IF body = <<>> THEN <<>>
    ELSE IF body[1] = 1 THEN <<240>> \o OneBytePushes(Tail(body))
    ELSE <<1, body[2]>> \o OneBytePushes(Tail(Tail(body)))

\* C28: for every i32.const instruction of a function body,
\* convert_to_vm_bytecode emits the Push opcode (0x01) followed by exactly
\* one immediate byte, the one-byte operand the interpreters consume.
C28_ConstIsPushAndOneByte ==
    (vmPc = "converted" /\ IsConstNopBody(vmBody)) =>
        vmBytecode = OneBytePushes(vmBody) \o <<255>>

\* C29: convert_to_vm_bytecode returns a stream ending in Exit (0xFF) for
\* every input byte sequence, without any out-of-bounds read, also when the
\* body ends inside an instruction's immediates.
C29_ConvertNeverReadsOutOfBounds ==
    /\ vmPc # "panicked"
    /\ vmPc = "converted" =>
           (vmBytecode # <<>> /\ vmBytecode[Len(vmBytecode)] = 255)

(***************************************************************************)
(* Properties of the virtualization of a module, checked under SpecVirt.   *)
(***************************************************************************)
FindVirtualizableCalled == pass = "find_virtualizable_functions"
VirtualizeCalled == pass = "virtualize_functions"

\* C23: find_virtualizable_functions returns exactly the positions i (in
\* the Code section, after its leading function count) of the bodies that
\* no function export refers to and whose size s satisfies 50 <= s <= 200,
\* both bounds included.
C23_FindReturnsMediumNonExported ==
    FindVirtualizableCalled =>
        /\ {virtualizable[k] : k \in 1..Len(virtualizable)} =
               {i \in 0..(Len(CodeBodies(module)) - 1) :
                    /\ i \notin ExportedCodePositions(module)
                    /\ Len(CodeBodies(module)[i + 1]) >= MinThreshold
                    /\ Len(CodeBodies(module)[i + 1]) <= MaxThreshold}
        /\ \A j, k \in 1..Len(virtualizable) : j < k => virtualizable[j] < virtualizable[k]

\* the bytes find_virtualizable_functions measured as function func_idx of
\* module m
MeasuredBody(m, func_idx) ==
    LET d == m[SetMin(SectionsOfType(m, "Code"))].data
        f == CHOOSE x \in {MeasuredFunctions(m)[k] : k \in 1..Len(MeasuredFunctions(m))} :
                 x.func_idx = func_idx
    IN  Slice(d, Min(f.start, Len(d)), Min(f.start + f.size, Len(d)))

\* C24: for every function index that virtualize_functions virtualizes,
\* find_virtualizable_functions, extract_function_body and
\* replace_with_rust_interpreter resolve the index to the same body: the
\* body measured is the body translated and is the body replaced.
C24_SameBodyMeasuredExtractedReplaced ==
    VirtualizeCalled =>
        \A k \in 1..Len(virtualized) :
            /\ virtualized[k].extracted = virtualized[k].replaced
            /\ MeasuredBody(module, virtualized[k].func_idx) = virtualized[k].func_body

\* section ids (SectionType::to_id)
SectionId(t) ==
    CASE t = "Custom" -> 0 [] t = "Type" -> 1 [] t = "Import" -> 2
      [] t = "Function" -> 3 [] t = "Table" -> 4 [] t = "Memory" -> 5
      [] t = "Global" -> 6 [] t = "Export" -> 7 [] t = "Start" -> 8
      [] t = "Element" -> 9 [] t = "Code" -> 10 [] t = "Data" -> 11
      [] t = "DataCount" -> 12

\* the non-custom sections of m come in ascending order of section id
AscendingSectionIds(m) ==
    \A i, j \in 1..Len(m) :
        (i < j /\ m[i].type # "Custom" /\ m[j].type # "Custom")
            => SectionId(m[i].type) < SectionId(m[j].type)

MemorySections(m) == [k \in 1..Cardinality(SectionsOfType(m, "Memory")) |->
                        m[Ascending(SectionsOfType(m, "Memory"))[k]]]

\* C25: when virtualization adds a Memory or a Data section, the non-custom
\* sections stay in ascending order of section id if they were before; an
\* existing Memory section is left unchanged and is not duplicated.
C25_AddedSectionsKeepOrder ==
    (VirtualizeCalled /\ output.ok) =>
        /\ AscendingSectionIds(module) => AscendingSectionIds(output.module)
        /\ SectionsOfType(module, "Memory") # {} =>
               MemorySections(output.module) = MemorySections(module)

(***************************************************************************)
(* Properties of the registry lock, checked under SpecLock.                *)
(***************************************************************************)
\* C30: encrypt_with_plugin and decrypt_with_plugin hold the registry's
\* guard only while looking the provider up: when a thread runs the
\* provider's encrypt or decrypt it no longer holds the guard, so another
\* thread's lookup or registration is not blocked by it.
C30_ProviderRunsWithoutGuard ==
    \A t \in DOMAIN threads : threads[t].pc = "call" => guard # t

====
